---- MODULE Spec2Model ----
(***************************************************************************)
(* A model of the tweep twee-v3 parser: the context (span) algebra, the    *)
(* ErrorList merge, the passage-header parser, passage assembly and the    *)
(* story-level assembly and merge of StoryPassages.                        *)
(*                                                                         *)
(* Text is modelled as a sequence of one-character strings.  Indices and   *)
(* byte offsets are 0-based as in the Rust source; Slice(s, a, b) is the   *)
(* Rust slice s[a..b].  All characters of the alphabet are ASCII, so byte  *)
(* offsets and character offsets coincide.                                 *)
(***************************************************************************)
EXTENDS Integers, Sequences, FiniteSets, TLC

VARIABLES
    line,       \* header model: the header line handed to PassageHeader::parse
    hdr,        \* header model: the outcome of PassageHeader::parse, or NotRun
    left,       \* merge model: left Result of ErrorList::merge
    right,      \* merge model: right Result of ErrorList::merge
    merged,     \* merge model: the Result returned by ErrorList::merge, or NotRun
    src,        \* context model: the text handed to FullContext::from
    context,    \* context model: the current context, NotRun or Panicked
    call,       \* context model: the call that produced `context`, until the
                \* caller goes on with the result
    plines,     \* passage model: the lines handed to Passage::parse
    pres,       \* passage model: the Output of Passage::parse, or NotRun
    file,       \* story model: the file name and contents of the input
    output,     \* story model: the Output of from_context, or NotRun
    acc,        \* unit model: the accumulated StoryPassages
    lastMerge,  \* unit model: the last merge_from call and its warnings
    merges,     \* unit model: the number of units merged so far
    checked,    \* check model: what check() and get_start_passage_name return
    paths,      \* paths model: the paths handed to from_paths
    pathsOut,   \* paths model: the Output of from_paths, or NotRun
    twine,      \* link model: the content lines handed to TwineContent::parse
    scanned     \* link model: the Output of TwineContent::parse, or NotRun

hdrVars == <<line, hdr>>
mergeVars == <<left, right, merged>>
ctxVars == <<src, context, call>>
passVars == <<plines, pres>>
storyVars == <<file, output>>
unitVars == <<acc, lastMerge, merges>>
checkVars == <<checked>>
pathVars == <<paths, pathsOut>>
linkVars == <<twine, scanned>>
laterVars == <<checked, paths, pathsOut, twine, scanned>>
vars == <<line, hdr, left, right, merged, src, context, call,
          plines, pres, file, output, acc, lastMerge, merges,
          checked, paths, pathsOut, twine, scanned>>

NotRun == [tag |-> "NotRun"]
Panicked == [tag |-> "Panic"]
None == -1

\* ------------------------------------------------------------------ bounds
MaxBodyLen == 4
MaxErrs == 2
MaxTextLen == 2
MaxPos == 2
MaxContentLines == 2
MaxLines == 3
MaxMerges == 3
\* Separator and text tokens between the `[[` and `]]` of a generated link.
MaxInnerLen == 5

\* Lines and columns of the positions of a chain of subcontexts.
MaxChainPos == 2

\* Passages in a file of specially named and tagged passages.
MaxDispatchPassages == 2

\* Tokens in the link text of a content scanned pass by pass.
MaxScanLen == 3
\* Paths handed to one call of from_paths.
MaxPaths == 2
\* Characters after the `::` of a header line drawn from the brace alphabet.
MaxMetaLen == 7
\* Characters after the `::` of a header line drawn from the bracket alphabets.
MaxTagLen == 6

\* ------------------------------------------------------------------ strings
BS == "\\"
Alphabet == {":", "{", "}", "[", "]", BS, " ", "a"}

Min(a, b) == IF a < b THEN a ELSE b

StringsUpTo(n) == UNION {[1..k -> Alphabet] : k \in 0..n}

Slice(s, a, b) == SubSeq(s, a + 1, b)

IsWhitespace(c) == c = " "

MatchAt(s, pat, i) ==
    /\ i >= 0
    /\ i + Len(pat) <= Len(s)
    /\ SubSeq(s, i + 1, i + Len(pat)) = pat

StartsWith(s, pat) == MatchAt(s, pat, 0)

\* str::match_indices: the start offsets of the non-overlapping matches,
\* found left to right.
RECURSIVE MatchIndicesFrom(_, _, _)
MatchIndicesFrom(s, pat, i) ==
    IF i + Len(pat) > Len(s) THEN <<>>
    ELSE IF MatchAt(s, pat, i)
         THEN <<i>> \o MatchIndicesFrom(s, pat, i + Len(pat))
         ELSE MatchIndicesFrom(s, pat, i + 1)

MatchIndices(s, pat) == MatchIndicesFrom(s, pat, 0)

\* str::find / str::rfind, None when there is no match.
Find(s, pat) ==
    LET hits == {i \in 0..Len(s) : MatchAt(s, pat, i)}
    IN  IF hits = {} THEN None ELSE CHOOSE i \in hits : \A j \in hits : i <= j

RFind(s, pat) ==
    LET hits == {i \in 0..Len(s) : MatchAt(s, pat, i)}
    IN  IF hits = {} THEN None ELSE CHOOSE i \in hits : \A j \in hits : i >= j

RECURSIVE TrimStart(_)
TrimStart(s) ==
    IF s # <<>> /\ IsWhitespace(Head(s)) THEN TrimStart(Tail(s)) ELSE s

RECURSIVE TrimEnd(_)
TrimEnd(s) ==
    IF s # <<>> /\ IsWhitespace(s[Len(s)])
    THEN TrimEnd(SubSeq(s, 1, Len(s) - 1))
    ELSE s

Trim(s) == TrimEnd(TrimStart(s))

\* str::split_whitespace: the maximal runs of non-whitespace, left to right.
RECURSIVE TakeWord(_)
TakeWord(s) ==
    IF s = <<>> \/ IsWhitespace(Head(s)) THEN <<>>
    ELSE <<Head(s)>> \o TakeWord(Tail(s))

RECURSIVE SplitWhitespace(_)
SplitWhitespace(s) ==
    LET t == TrimStart(s)
        w == TakeWord(t)
    IN  IF t = <<>> THEN <<>>
        ELSE <<w>> \o SplitWhitespace(SubSeq(t, Len(w) + 1, Len(t)))

\* str::replace(pat, "") for a one-character pattern.
RECURSIVE RemoveChar(_, _)
RemoveChar(s, c) ==
    IF s = <<>> THEN <<>>
    ELSE IF Head(s) = c THEN RemoveChar(Tail(s), c)
         ELSE <<Head(s)>> \o RemoveChar(Tail(s), c)

SeqContains(q, x) == \E i \in 1..Len(q) : q[i] = x

RECURSIVE SeqFilterNotIn(_, _)
SeqFilterNotIn(q, excl) ==
    IF q = <<>> THEN <<>>
    ELSE IF SeqContains(excl, Head(q)) THEN SeqFilterNotIn(Tail(q), excl)
         ELSE <<Head(q)>> \o SeqFilterNotIn(Tail(q), excl)

SeqAddAll(q, d) == [i \in 1..Len(q) |-> q[i] + d]

\* ------------------------------------------------------------------ header
\* find_last_unescaped: the offset of the last `c`, unless it is the one that
\* directly follows the last `\c`.
FindLastUnescaped(input, c) ==
    LET pos == RFind(input, <<c>>)
        esc == RFind(input, <<BS, c>>)
        escaped_pos == IF esc = None THEN Len(input) ELSE esc
    IN  IF pos = None THEN None
        ELSE IF pos # escaped_pos + 1 THEN pos ELSE None

\* find_all_unescaped: the offsets of every `c` not directly after a `\`.
FindAllUnescaped(input, c) ==
    LET escaped == SeqAddAll(MatchIndices(input, <<BS, c>>), 1)
    IN  SeqFilterNotIn(MatchIndices(input, <<c>>), escaped)

\* GuessMetadataRange starting an unbalanced block at the last open.
GuessMetadataRange_FromLastOpen(input) ==
    LET opens == FindAllUnescaped(input, "{")
        closes == FindAllUnescaped(input, "}")
    IN  IF opens = <<>> THEN [some |-> FALSE, start |-> 0, end |-> 0]
        ELSE IF closes = <<>>
             THEN [some |-> TRUE, start |-> opens[Len(opens)], end |-> Len(input)]
        ELSE IF Len(opens) > Len(closes)
             THEN [some |-> TRUE,
                   start |-> opens[Len(opens)],
                   end |-> closes[Len(closes)] + 1]
        ELSE [some |-> TRUE, start |-> opens[1], end |-> closes[Len(closes)] + 1]

\* guess_metadata_range: Option<Range<usize>>.
GuessMetadataRange(input) ==
    LET opens == FindAllUnescaped(input, "{")
        closes == FindAllUnescaped(input, "}")
    IN  IF opens = <<>> THEN [some |-> FALSE, start |-> 0, end |-> 0]
        ELSE IF closes = <<>>
             THEN [some |-> TRUE, start |-> opens[Len(opens)], end |-> Len(input)]
        ELSE IF Len(opens) > Len(closes)
             THEN [some |-> TRUE,
                   start |-> opens[(Len(opens) - Len(closes)) + 1],
                   end |-> closes[Len(closes)] + 1]
        ELSE [some |-> TRUE, start |-> opens[1], end |-> closes[Len(closes)] + 1]

\* serde_json::from_str on the metadata text.  Over Alphabet (no quote, digit
\* or comma) the only JSON documents that begin with `{` are an empty object
\* with optional whitespace inside and after it.
ParseMetadataOk(meta_str) == RemoveChar(meta_str, " ") = <<"{", "}">>

\* check_name: Ok(offsets of the `\c` occurrences) or Err(column of the first
\* unescaped `c`).
RECURSIVE UnescapedIn(_, _)
UnescapedIn(found, escaped) ==
    IF found = <<>> THEN <<>>
    ELSE LET i == Head(found)
         IN  IF i = 0 \/ ~SeqContains(escaped, i - 1)
             THEN <<i>> \o UnescapedIn(Tail(found), escaped)
             ELSE UnescapedIn(Tail(found), escaped)

CheckName(input, c) ==
    LET escaped == MatchIndices(input, <<BS, c>>)
        unescaped == UnescapedIn(MatchIndices(input, <<c>>), escaped)
    IN  IF unescaped = <<>>
        THEN [ok |-> TRUE, indices |-> escaped, column |-> 0]
        ELSE [ok |-> FALSE, indices |-> <<>>, column |-> unescaped[1] + 1]

Err(kind, column) == [kind |-> kind, column |-> column]
Warn(kind, column) == [kind |-> kind, column |-> column]

\* NameClasses with the square brackets checked before the curly ones.
NameClasses_SquareFirst ==
    << [c |-> "[", e |-> "UnescapedOpenSquare",  w |-> "EscapedOpenSquare"],
       [c |-> "]", e |-> "UnescapedCloseSquare", w |-> "EscapedCloseSquare"],
       [c |-> "{", e |-> "UnescapedOpenCurly",   w |-> "EscapedOpenCurly"],
       [c |-> "}", e |-> "UnescapedCloseCurly",  w |-> "EscapedCloseCurly"] >>

NameClasses ==
    << [c |-> "{", e |-> "UnescapedOpenCurly",   w |-> "EscapedOpenCurly"],
       [c |-> "}", e |-> "UnescapedCloseCurly",  w |-> "EscapedCloseCurly"],
       [c |-> "[", e |-> "UnescapedOpenSquare",  w |-> "EscapedOpenSquare"],
       [c |-> "]", e |-> "UnescapedCloseSquare", w |-> "EscapedCloseSquare"] >>

\* Flatten keeping the first non-empty list only.
RECURSIVE Flatten_FirstOnly(_)
Flatten_FirstOnly(qq) ==
    IF qq = <<>> THEN <<>>
    ELSE IF Head(qq) # <<>> THEN Head(qq)
    ELSE Flatten_FirstOnly(Tail(qq))

RECURSIVE Flatten(_)
Flatten(qq) == IF qq = <<>> THEN <<>> ELSE Head(qq) \o Flatten(Tail(qq))

\* A slice s[a..b] of a string of length n panics unless a <= b <= n.
ValidRange(r, n) == r[1] <= r[2] /\ r[2] <= n

\* The Err output with the accumulated warnings attached to it.
ErrWarnings_Kept(warnings) == warnings

\* The warnings of Output::new(Err(errors)): the accumulated ones are not
\* passed on.
ErrWarnings(warnings) == <<>>

\* PassageHeader::parse on a header context whose contents are `input`.
PassageHeaderParse(input) ==
    LET n == Len(input)
        sigilErrs ==
            IF StartsWith(input, <<":", ":">>) THEN <<>>
            ELSE IF StartsWith(TrimStart(input), <<":", ":">>)
                 THEN <<Err("LeadingWhitespace", 1)>>
                 ELSE <<Err("MissingSigil", 1)>>
        range == GuessMetadataRange(input)
        nep1 == IF range.some THEN range.start ELSE n
        metaErrs ==
            IF range.some
               /\ FindLastUnescaped(Slice(input, range.end, n), "[") # None
            THEN <<Err("MetadataBeforeTags", range.start + 1)>>
            ELSE <<>>
        meta_str == Slice(input, range.start, range.end)
        metaOk == range.some /\ ParseMetadataOk(meta_str)
        metaWarns ==
            IF range.some /\ ~ParseMetadataOk(meta_str)
            THEN <<Warn("JsonError", range.start)>>
            ELSE <<>>
        pos == FindLastUnescaped(Slice(input, 0, nep1), "[")
        end_pos == IF pos = None THEN None
                   ELSE FindLastUnescaped(Slice(input, pos + 1, nep1), "]")
        tags == IF pos # None /\ end_pos # None
                THEN SplitWhitespace(Trim(Slice(input, pos + 1, pos + 1 + end_pos)))
                ELSE <<>>
        tagErrs == IF pos # None /\ end_pos = None
                   THEN <<Err("UnclosedTagBlock", pos + 1)>>
                   ELSE <<>>
        name_end_pos == IF pos = None THEN nep1 ELSE Min(nep1, pos)
        namePart == Slice(input, 0, name_end_pos)
        checks == [k \in 1..4 |-> CheckName(namePart, NameClasses[k].c)]
        nameErrs == Flatten([k \in 1..4 |->
                        IF checks[k].ok THEN <<>>
                        ELSE <<Err(NameClasses[k].e, checks[k].column)>>])
        nameWarns == Flatten([k \in 1..4 |->
                        IF checks[k].ok
                        THEN [j \in 1..Len(checks[k].indices) |->
                                 Warn(NameClasses[k].w, checks[k].indices[j] + 1)]
                        ELSE <<>>])
        name == IF name_end_pos > 2
                THEN RemoveChar(Trim(Slice(input, 2, name_end_pos)), BS)
                ELSE <<>>
        emptyErrs == IF name = <<>> THEN <<Err("EmptyName", 3)>> ELSE <<>>
        errors == sigilErrs \o metaErrs \o tagErrs \o nameErrs \o emptyErrs
        warnings == metaWarns \o nameWarns
        \* every range the function slices `input` with
        ranges ==
            (IF range.some
             THEN {<<range.end, n>>, <<range.start, range.end>>} ELSE {})
            \cup {<<0, nep1>>}
            \cup (IF pos # None THEN {<<pos + 1, nep1>>} ELSE {})
            \cup (IF pos # None /\ end_pos # None
                  THEN {<<pos + 1, pos + 1 + end_pos>>} ELSE {})
            \cup {<<0, name_end_pos>>}
            \cup (IF name_end_pos > 2 THEN {<<2, name_end_pos>>} ELSE {})
    IN  IF \E r \in ranges : ~ValidRange(r, n)
        THEN [tag |-> "Panic", ranges |-> ranges]
        ELSE IF errors = <<>>
        THEN [tag |-> "Ok", name |-> name, tags |-> tags, metaOk |-> metaOk,
              hasMeta |-> range.some, warnings |-> warnings, errors |-> <<>>,
              ranges |-> ranges]
        ELSE [tag |-> "Err", errors |-> errors,
              warnings |-> ErrWarnings(warnings),
              dropped |-> warnings, ranges |-> ranges]

\* ------------------------------------------------------------------ contexts
NL == "\n"
Abs(l, c) == [line |-> l, column |-> c, kind |-> "Absolute"]
Rel(l, c) == [line |-> l, column |-> c, kind |-> "Relative"]

\* Subposition adding the base column on every line.
Subposition_AlwaysAddsColumn(self, l, c) ==
    [line |-> self.line + l - 1, column |-> self.column + c - 1,
     kind |-> self.kind]

\* Position::subposition
Subposition(self, l, c) ==
    [line |-> self.line + l - 1,
     column |-> IF l = 1 THEN self.column + c - 1 ELSE c,
     kind |-> self.kind]

\* util::line_starts: 0, then the offset after every newline.
LineStarts(s) == <<0>> \o SeqAddAll(MatchIndices(s, <<NL>>), 1)

\* util::to_byte_index.  Undefined (a panic) when the line has no entry in
\* line_starts or the usize subtraction underflows.
ByteIndexDefined(p, ls, inclusive) ==
    /\ p.line >= 1
    /\ p.line <= Len(ls)
    /\ (inclusive \/ ls[p.line] + p.column >= 1)

ToByteIndex(p, ls, inclusive) ==
    ls[p.line] + p.column - (IF inclusive THEN 0 ELSE 1)

\* util::end_of_line.  Undefined (a panic) for a line outside line_starts.
EndOfLineDefined(l, ls) == l >= 1 /\ l <= Len(ls)

\* UtilEndOfLine with the newline subtracted on the last line as well.
UtilEndOfLine_LastLineHasNewline(l, ls, contents) ==
    Abs(l, IF l >= Len(ls) THEN Len(contents) - ls[l] - 1
           ELSE ls[l + 1] - ls[l] - 1)

UtilEndOfLine(l, ls, contents) ==
    Abs(l, IF l >= Len(ls) THEN Len(contents) - ls[l] ELSE ls[l + 1] - ls[l] - 1)

\* FullContext::from
ContextFrom(file_name, contents) ==
    LET ls == LineStarts(contents)
    IN  [file_name |-> file_name,
         start_position |-> Abs(1, 1),
         end_position |-> UtilEndOfLine(Len(ls), ls, contents),
         contents |-> contents,
         line_starts |-> ls]

\* FullContext::get_byte_range
ByteRangeDefined(c) ==
    /\ ByteIndexDefined(c.start_position, c.line_starts, FALSE)
    /\ ByteIndexDefined(c.end_position, c.line_starts, TRUE)

GetByteRange(c) ==
    <<ToByteIndex(c.start_position, c.line_starts, FALSE),
      ToByteIndex(c.end_position, c.line_starts, TRUE)>>

\* FullContext::get_contents: an end before the start is clamped to the start;
\* the slice panics when it leaves the buffer.
GetContentsDefined(c) ==
    /\ ByteRangeDefined(c)
    /\ LET r == GetByteRange(c)
       IN  (IF r[2] < r[1] THEN r[1] ELSE r[2]) <= Len(c.contents)

GetContents(c) ==
    LET r == GetByteRange(c)
    IN  Slice(c.contents, r[1], IF r[2] < r[1] THEN r[1] ELSE r[2])

\* Bounds of a range of Positions.
Unbounded == [b |-> "Unbounded", p |-> Abs(1, 1)]
Included(p) == [b |-> "Included", p |-> p]
Excluded(p) == [b |-> "Excluded", p |-> p]

ResolveBound(ctx, p) ==
    IF p.kind = "Absolute" THEN p
    ELSE Subposition(ctx.start_position, p.line, p.column)

\* bound_to_position: the panics are the explicit one for an exclusive bound at
\* (1,1) and the ones of end_of_line.  In the exclusive branch the previous
\* line is computed from the bound as given (p.line), not as resolved.
BoundDefined(ctx, bound) ==
    bound.b = "Excluded" =>
        LET abs == ResolveBound(ctx, bound.p)
        IN  abs.column <= 1 =>
                /\ abs.line > 1
                /\ EndOfLineDefined(bound.p.line - 1, ctx.line_starts)

BoundToPosition(ctx, bound, start) ==
    IF bound.b = "Included" THEN ResolveBound(ctx, bound.p)
    ELSE IF bound.b = "Excluded"
    THEN LET abs == ResolveBound(ctx, bound.p)
         IN  IF abs.column > 1 THEN [abs EXCEPT !.column = abs.column - 1]
             ELSE UtilEndOfLine(bound.p.line - 1, ctx.line_starts, ctx.contents)
    ELSE IF start THEN ctx.start_position ELSE ctx.end_position

\* FullContext::subcontext with inner_subcontext: the bounds are resolved and
\* stored as given; nothing is compared with the parent's own bounds.
SubcontextDefined(ctx, range) ==
    BoundDefined(ctx, range[1]) /\ BoundDefined(ctx, range[2])

FullSubcontext(ctx, range) ==
    [ctx EXCEPT !.start_position = BoundToPosition(ctx, range[1], TRUE),
                !.end_position = BoundToPosition(ctx, range[2], FALSE)]

Texts == UNION {[1..k -> {"a", NL}] : k \in 0..MaxTextLen}
FileNames == {"None", "a.twee"}
InputPositions ==
    {[line |-> l, column |-> c, kind |-> k] :
        l \in 1..MaxPos, c \in 1..MaxPos, k \in {"Absolute", "Relative"}}
StartBounds == {Unbounded} \cup {Included(p) : p \in InputPositions}
EndBounds == StartBounds \cup {Excluded(p) : p \in InputPositions}
Ranges == StartBounds \X EndBounds

\* The texts and positions of a chain of subcontexts c.subcontext(a..=b)
\* .subcontext(p..=q), c itself starting at any position.
ChainTexts == {<<>>, <<"a", NL, "a", "a">>}
ChainPositions(kind) ==
    {[line |-> l, column |-> c, kind |-> kind] :
        l \in 1..MaxChainPos, c \in 1..MaxChainPos}
InclusiveRange(a, b) == <<Included(a), Included(b)>>

\* The header lines explored: every string over Alphabet up to MaxBodyLen,
\* bare, behind the sigil, and behind an indented sigil.
Prefixes == {<<>>, <<":", ":">>, <<" ", ":", ":">>}
HeaderLines == {p \o b : p \in Prefixes, b \in StringsUpTo(MaxBodyLen)}

\* Header lines over the characters that matter to guess_metadata_range.
MetaAlphabet == {"{", "}", BS, "a"}
MetaLines ==
    {<<":", ":">> \o b : b \in UNION {[1..k -> MetaAlphabet] : k \in 0..MaxMetaLen}}

\* Header lines with a tag block, and with brackets around a metadata block.
TagAlphabet == {"[", "]", BS, " ", "a"}
MetaTagAlphabet == {"{", "}", "[", BS, "a"}
TagLines ==
    {<<":", ":">> \o b :
        b \in UNION {[1..k -> TagAlphabet] : k \in 0..MaxTagLen}
              \cup UNION {[1..k -> MetaTagAlphabet] : k \in 0..MaxTagLen}}

\* ------------------------------------------------------------------ ErrorList
Ok == [tag |-> "Ok", errors |-> <<>>]
ErrOf(errors) == [tag |-> "Err", errors |-> errors]
IsErr(r) == r.tag = "Err"
IsOk(r) == r.tag = "Ok"

\* ErrorList::merge: the returned Result; Vec::append moves the errors out of
\* each Err input, so both inputs are left holding empty lists.
ErrorListMerge(l, r) ==
    LET errors == (IF IsErr(l) THEN l.errors ELSE <<>>)
                  \o (IF IsErr(r) THEN r.errors ELSE <<>>)
    IN  IF errors = <<>> THEN Ok ELSE ErrOf(errors)

Drained(r) == IF IsErr(r) THEN ErrOf(<<>>) ELSE r

ErrorKinds == {"EmptyName", "MissingSigil", "LeadingWhitespace"}
ErrorLists == UNION {[1..k -> {Err(e, 1) : e \in ErrorKinds}] : k \in 0..MaxErrs}
Results == {Ok} \cup {ErrOf(l) : l \in ErrorLists}

\* ------------------------------------------------------------------ passages
S_StoryTitle == <<"S", "t", "o", "r", "y", "T", "i", "t", "l", "e">>
S_StoryData == <<"S", "t", "o", "r", "y", "D", "a", "t", "a">>
S_script == <<"s", "c", "r", "i", "p", "t">>
S_stylesheet == <<"s", "t", "y", "l", "e", "s", "h", "e", "e", "t">>

\* Iterator::join("\n") of a list of lines.
RECURSIVE Join(_)
Join(ls) ==
    IF ls = <<>> THEN <<>>
    ELSE IF Len(ls) = 1 THEN ls[1]
    ELSE ls[1] \o <<NL>> \o Join(Tail(ls))

\* The piece before the first `pat` (split(pat).next()) and the piece between
\* the first and the second `pat` (the second item of split(pat)).
FirstPiece(t, pat) ==
    LET i == Find(t, pat) IN IF i = None THEN t ELSE Slice(t, 0, i)

SecondPiece(t, pat) ==
    LET i == Find(t, pat)
        rest == Slice(t, i + Len(pat), Len(t))
        j == Find(rest, pat)
    IN  IF j = None THEN rest ELSE Slice(rest, 0, j)

Contains(t, pat) == Find(t, pat) # None

\* The link target chosen from the text between `[[` and `]]`.
LinkTarget(link_content) ==
    IF Contains(link_content, <<"|">>) THEN SecondPiece(link_content, <<"|">>)
    ELSE IF Contains(link_content, <<"<", "-">>)
         THEN FirstPiece(link_content, <<"<", "-">>)
    ELSE IF Contains(link_content, <<"-", ">">>)
         THEN SecondPiece(link_content, <<"-", ">">>)
    ELSE link_content

\* HasOuterWhitespace looking at the first character only.
HasOuterWhitespace_LeadingOnly(t) == t # <<>> /\ IsWhitespace(t[1])

HasOuterWhitespace(t) ==
    t # <<>> /\ (IsWhitespace(t[1]) \/ IsWhitespace(t[Len(t)]))

RowWarn(kind, row, column) == [kind |-> kind, row |-> row, column |-> column]

\* ScanLine going on to the next `[[` after an unclosed one.
RECURSIVE ScanLine_ContinuesAfterUnclosed(_, _, _)
ScanLine_ContinuesAfterUnclosed(text, row, start) ==
    LET x == Find(Slice(text, start, Len(text)), <<"[", "[">>)
        open == start + x
        y == Find(Slice(text, open, Len(text)), <<"]", "]">>)
        end == open + y
        target == LinkTarget(Slice(text, open + 2, end))
    IN  IF x = None THEN [links |-> <<>>, warnings |-> <<>>]
        ELSE IF y = None
        THEN [links |-> <<>>,
              warnings |->
                  <<RowWarn("UnclosedLink", row + 1, open + 1)>> \o
                  ScanLine_ContinuesAfterUnclosed(text, row, open + 2).warnings]
        ELSE [links |-> <<[target |-> target, col_offset |-> open,
                           row_offset |-> row]>> \o
                        ScanLine_ContinuesAfterUnclosed(text, row, end).links,
              warnings |->
                  (IF HasOuterWhitespace(target)
                   THEN <<RowWarn("WhitespaceInLink", row + 1, open + 1)>>
                   ELSE <<>>) \o
                  ScanLine_ContinuesAfterUnclosed(text, row, end).warnings]

\* The loop of TwineContent::parse over one line, from offset `start`; `row`
\* is the 0-based index of the line in the content.
RECURSIVE ScanLine(_, _, _)
ScanLine(text, row, start) ==
    LET x == Find(Slice(text, start, Len(text)), <<"[", "[">>)
        open == start + x
        y == Find(Slice(text, open, Len(text)), <<"]", "]">>)
        end == open + y
        target == LinkTarget(Slice(text, open + 2, end))
        rest == ScanLine(text, row, end)
    IN  IF x = None THEN [links |-> <<>>, warnings |-> <<>>]
        ELSE IF y = None
        THEN [links |-> <<>>,
              warnings |-> <<RowWarn("UnclosedLink", row + 1, open + 1)>>]
        ELSE [links |-> <<[target |-> target, col_offset |-> open,
                           row_offset |-> row]>> \o rest.links,
              warnings |->
                  (IF HasOuterWhitespace(target)
                   THEN <<RowWarn("WhitespaceInLink", row + 1, open + 1)>>
                   ELSE <<>>) \o rest.warnings]

\* TwineContent::parse over the content lines.
RECURSIVE TwineScanRows(_, _)
TwineScanRows(input, row) ==
    IF row >= Len(input) THEN [links |-> <<>>, warnings |-> <<>>]
    ELSE LET here == ScanLine(input[row + 1], row, 0)
             rest == TwineScanRows(input, row + 1)
         IN  [links |-> here.links \o rest.links,
              warnings |-> here.warnings \o rest.warnings]

TwineContentParse(input) ==
    LET scan == TwineScanRows(input, 0)
    IN  [res |-> Ok,
         content |-> [kind |-> "Normal", links |-> scan.links, pid |-> 1,
                      start |-> <<>>, hasStart |-> FALSE,
                      text |-> Join(input) \o <<NL>>],
         warnings |-> scan.warnings]

\* One pass of the `loop` in TwineContent::parse, by its parts: the offset of
\* the next `[[` at or after `start`, the offset of the first `]]` at or after
\* that opener, and the offset the next pass starts from.
FindOpener(text, start) ==
    LET x == Find(Slice(text, start, Len(text)), <<"[", "[">>)
    IN  IF x = None THEN None ELSE start + x

FindCloser(text, open) ==
    LET x == Find(Slice(text, open, Len(text)), <<"]", "]">>)
    IN  IF x = None THEN None ELSE open + x

\* The next pass starting again from the opener.
NextStart_FromOpener(open, end) == open

NextStart(open, end) == end

\* The state of the scan before the call, and on entry before the first line.
ScanStart ==
    [pc |-> "call", row |-> 0, start |-> 0, open |-> None, end |-> None,
     links |-> <<>>, warnings |-> <<>>]

\* serde_json::from_str::<StoryData>: of the documents the model writes into
\* passages, these two are the ones that deserialize (`ifid` is required).
Q == "\""
DataDoc ==
    <<"{", Q, "i", "f", "i", "d", Q, ":", Q, "I", Q, "}">>
DataDocStart(name) ==
    <<"{", Q, "i", "f", "i", "d", Q, ":", Q, "I", Q, ",",
      Q, "s", "t", "a", "r", "t", Q, ":", Q>> \o name \o <<Q, "}">>
StartNames == {<<"A">>, <<"B">>}

SerdeStoryData(text) ==
    IF text = DataDoc THEN [ok |-> TRUE, hasStart |-> FALSE, start |-> <<>>]
    ELSE IF \E n \in StartNames : text = DataDocStart(n)
    THEN [ok |-> TRUE, hasStart |-> TRUE,
          start |-> CHOOSE n \in StartNames : text = DataDocStart(n)]
    ELSE [ok |-> FALSE, hasStart |-> FALSE, start |-> <<>>]

\* StoryData::parse: never an error; a JsonError warning and no data when the
\* document does not deserialize.  The position serde reports for the
\* error is not modelled: the warning is placed at the start of the content.
StoryDataParse(input) ==
    LET d == SerdeStoryData(Join(input))
    IN  [res |-> Ok,
         content |-> [kind |-> "StoryData", links |-> <<>>, pid |-> 0,
                      start |-> d.start, hasStart |-> d.hasStart,
                      text |-> IF d.ok THEN Join(input) ELSE <<>>],
         warnings |-> IF d.ok THEN <<>> ELSE <<RowWarn("JsonError", 0, 0)>>]

\* StoryTitle::parse, ScriptContent::parse, StylesheetContent::parse
VerbatimParse(kind, input) ==
    [res |-> Ok,
     content |-> [kind |-> kind, links |-> <<>>, pid |-> 0, start |-> <<>>,
                  hasStart |-> FALSE, text |-> Join(input)],
     warnings |-> <<>>]

\* Positional::set_row / offset_row on a list of errors or warnings.
SetRow(q, row) ==
    [i \in 1..Len(q) |->
        [kind |-> q[i].kind, row |-> row, column |-> q[i].column]]
OffsetRow(q, d) == [i \in 1..Len(q) |-> [q[i] EXCEPT !.row = @ + d]]
\* Output::with_offset_row
WithOffsetRow(c, d) == [c EXCEPT !.warnings = OffsetRow(@, d)]

\* The content of a passage: the lines after the header, up to the last
\* non-empty line of the passage.
ContentLines(lines) ==
    LET nonEmpty == {i \in 1..Len(lines) : lines[i] # <<>>}
        len == IF nonEmpty = {} THEN 0
               ELSE (CHOOSE i \in nonEmpty : \A j \in nonEmpty : j <= i) - 1
    IN  SubSeq(lines, 2, len + 1)

\* ContentParse looking at the tags before the name.
ContentParse_TagsFirst(header, input) ==
    IF SeqContains(header.tags, S_script) THEN VerbatimParse("Script", input)
    ELSE IF SeqContains(header.tags, S_stylesheet)
         THEN VerbatimParse("Stylesheet", input)
    ELSE IF header.name = S_StoryTitle THEN VerbatimParse("StoryTitle", input)
    ELSE IF header.name = S_StoryData THEN StoryDataParse(input)
    ELSE TwineContentParse(input)

\* The content parser chosen for an Ok header.
ContentParse(header, input) ==
    IF header.name = S_StoryTitle THEN VerbatimParse("StoryTitle", input)
    ELSE IF header.name = S_StoryData THEN StoryDataParse(input)
    ELSE IF SeqContains(header.tags, S_script) THEN VerbatimParse("Script", input)
    ELSE IF SeqContains(header.tags, S_stylesheet)
         THEN VerbatimParse("Stylesheet", input)
    ELSE TwineContentParse(input)

\* PassageNew with the content warnings put before the header warnings.
PassageNew_ContentWarningsFirst(header, hres, hwarnings, content) ==
    LET possible_errors == ErrorListMerge(hres, content.res)
    IN  [tag |-> "Done",
         res |-> IF IsErr(possible_errors) THEN possible_errors
                 ELSE [tag |-> "Ok", errors |-> <<>>,
                       passage |-> [name |-> header.name, tags |-> header.tags,
                                    content |-> content.content]],
         warnings |-> content.warnings \o hwarnings,
         contentInvoked |-> TRUE]

\* Passage::new: warnings concatenated, errors merged.
PassageNew(header, hres, hwarnings, content) ==
    LET possible_errors == ErrorListMerge(hres, content.res)
    IN  [tag |-> "Done",
         res |-> IF IsErr(possible_errors) THEN possible_errors
                 ELSE [tag |-> "Ok", errors |-> <<>>,
                       passage |-> [name |-> header.name, tags |-> header.tags,
                                    content |-> content.content]],
         warnings |-> hwarnings \o content.warnings,
         contentInvoked |-> TRUE]

\* Passage::parse once the header line has been parsed to `h`.
PassageParseAfterHeader(h, lines) ==
    IF h.tag = "Panic" THEN Panicked
    ELSE IF h.tag = "Err"
    THEN [tag |-> "Done", res |-> ErrOf(SetRow(h.errors, 1)),
          warnings |-> SetRow(h.warnings, 1), contentInvoked |-> FALSE]
    ELSE PassageNew(h, Ok, SetRow(h.warnings, 1),
                    WithOffsetRow(ContentParse(h, ContentLines(lines)), 1))

\* Passage::parse on the lines of one passage.
PassageParse(lines) ==
    PassageParseAfterHeader(PassageHeaderParse(lines[1]), lines)

\* ------------------------------------------------------------------ stories
\* contents.split('\n')
RECURSIVE SplitLines(_)
SplitLines(contents) ==
    LET i == Find(contents, <<NL>>)
    IN  IF i = None THEN <<contents>>
        ELSE <<Slice(contents, 0, i)>>
                 \o SplitLines(Slice(contents, i + 1, Len(contents)))

\* line.trim_start().starts_with("::")
IsHeaderLine(text) == StartsWith(TrimStart(text), <<":", ":">>)

\* iter.find(..): the first header line at or after line `from`, 0 if none.
NextHeaderLine(lines, from) ==
    LET hs == {i \in from..Len(lines) : IsHeaderLine(lines[i])}
    IN  IF hs = {} THEN 0 ELSE CHOOSE i \in hs : \A j \in hs : i <= j

\* The context of a passage: the lines first..last of the file.
PassageContext(file_name, first, last) ==
    [file_name |-> file_name, first |-> first, last |-> last]
NoContext == PassageContext("None", 0, 0)
NoPassage == [kind |-> "None"]

\* Errors and warnings of a passage are positioned in the subcontext the
\* passage was parsed from.
InContext(q, ctx) ==
    [i \in 1..Len(q) |->
        [kind |-> q[i].kind, row |-> q[i].row, column |-> q[i].column,
         name |-> <<>>, context |-> ctx, referent |-> NoContext]]

\* Warning::new(kind, Some(context)).with_referent(referent)
DuplicateWarning(kind, name, ctx, referent) ==
    [kind |-> kind, row |-> 0, column |-> 0, name |-> name,
     context |-> ctx, referent |-> referent]

\* HashMap<String, Passage>
EmptyMap == [n \in {} |-> NoPassage]
MapInsert(m, k, v) ==
    [n \in DOMAIN m \cup {k} |-> IF n = k THEN v ELSE m[n]]

\* BiMap<usize, String>::insert: pairs sharing the id or the name are removed.
BiMapInsert(b, id, name) ==
    {pr \in b : pr[1] # id /\ pr[2] # name} \cup {<<id, name>>}

\* CodeMap::default and CodeMap::add
EmptyCodeMap == [id_file_map |-> {}, contexts |-> EmptyMap]
CodeMapAdd(code_map, file_name) ==
    IF file_name = "None" THEN code_map
    ELSE LET new_id == Cardinality(code_map.id_file_map)
         IN  [id_file_map |-> BiMapInsert(code_map.id_file_map, new_id, file_name),
              contexts |-> MapInsert(code_map.contexts, new_id, file_name)]

\* CodeMap::lookup_name
LookupName(code_map, id) ==
    IF \E pr \in code_map.id_file_map : pr[1] = id
    THEN (CHOOSE pr \in code_map.id_file_map : pr[1] = id)[2]
    ELSE "None"

\* StoryPassages::default, with the running lists of StoryPassages::parse
EmptyStory ==
    [title |-> NoPassage, data |-> NoPassage, passages |-> EmptyMap,
     scripts |-> <<>>, stylesheets |-> <<>>, code_map |-> EmptyCodeMap]

\* The duplicate check with the later passage stored over the first one.
StorePassage_LastWins(st, p) ==
    LET kind == p.content.kind
    IN  IF kind = "Normal"
        THEN [st EXCEPT !.passages = MapInsert(@, p.name, p),
                 !.warnings = IF p.name \in DOMAIN st.passages
                              THEN Append(@, DuplicateWarning("DuplicatePassage",
                                       p.name, p.context,
                                       st.passages[p.name].context))
                              ELSE @]
        ELSE IF kind = "StoryTitle"
        THEN [st EXCEPT !.title = p,
                 !.warnings = IF st.title # NoPassage
                              THEN Append(@, DuplicateWarning("DuplicateStoryTitle",
                                       <<>>, p.context, st.title.context))
                              ELSE @]
        ELSE IF kind = "StoryData"
        THEN [st EXCEPT !.data = p,
                 !.warnings = IF st.data # NoPassage
                              THEN Append(@, DuplicateWarning("DuplicateStoryData",
                                       <<>>, p.context, st.data.context))
                              ELSE @]
        ELSE IF kind = "Script" THEN [st EXCEPT !.scripts = Append(@, p)]
        ELSE [st EXCEPT !.stylesheets = Append(@, p)]

\* The match on the passage content in StoryPassages::parse.
StorePassage(st, p) ==
    LET kind == p.content.kind
    IN  IF kind = "Normal"
        THEN IF p.name \in DOMAIN st.passages
             THEN [st EXCEPT !.warnings =
                       Append(@, DuplicateWarning("DuplicatePassage", p.name,
                                     p.context, st.passages[p.name].context))]
             ELSE [st EXCEPT !.passages = MapInsert(@, p.name, p)]
        ELSE IF kind = "StoryTitle"
        THEN IF st.title # NoPassage
             THEN [st EXCEPT !.warnings =
                       Append(@, DuplicateWarning("DuplicateStoryTitle", <<>>,
                                     p.context, st.title.context))]
             ELSE [st EXCEPT !.title = p]
        ELSE IF kind = "StoryData"
        THEN IF st.data # NoPassage
             THEN [st EXCEPT !.warnings =
                       Append(@, DuplicateWarning("DuplicateStoryData", <<>>,
                                     p.context, st.data.context))]
             ELSE [st EXCEPT !.data = p]
        ELSE IF kind = "Script" THEN [st EXCEPT !.scripts = Append(@, p)]
        ELSE [st EXCEPT !.stylesheets = Append(@, p)]

\* The last line of the passage that starts at line `start`.
SubcontextEnd(lines, start) ==
    IF NextHeaderLine(lines, start + 1) = 0 THEN Len(lines)
    ELSE NextHeaderLine(lines, start + 1) - 1

\* One round of the while loop of StoryPassages::parse: `out` is what
\* Passage::parse returned for the subcontext `ctx`.  `attempts` lists the
\* contexts handed to Passage::parse.
ParseRound(st, ctx, out) ==
    IF out = Panicked
    THEN [st EXCEPT !.attempts = Append(@, ctx), !.panicked = TRUE]
    ELSE IF IsErr(out.res)
    THEN [st EXCEPT !.attempts = Append(@, ctx),
             !.warnings = @ \o InContext(out.warnings, ctx),
             !.errors = ErrorListMerge(@, ErrOf(InContext(out.res.errors, ctx)))]
    ELSE StorePassage(
             [st EXCEPT !.attempts = Append(@, ctx),
                 !.warnings = @ \o InContext(out.warnings, ctx)],
             [name |-> out.res.passage.name, tags |-> out.res.passage.tags,
              content |-> out.res.passage.content, context |-> ctx])

\* The while loop of StoryPassages::parse from the passage starting at line
\* `start`; a panic ends it.
RECURSIVE ParseLoop(_, _, _, _)
ParseLoop(st, file_name, lines, start) ==
    IF start > Len(lines) \/ st.panicked THEN st
    ELSE ParseLoop(
             ParseRound(st,
                 PassageContext(file_name, start, SubcontextEnd(lines, start)),
                 PassageParse(SubSeq(lines, start, SubcontextEnd(lines, start)))),
             file_name, lines, SubcontextEnd(lines, start) + 1)

\* The Output StoryPassages::parse assembles after the loop.
ParseOutput(st, code_map) ==
    IF st.panicked THEN [tag |-> "Panic", attempts |-> st.attempts]
    ELSE IF IsOk(st.errors)
    THEN [tag |-> "Ok",
          story |-> [title |-> st.title, data |-> st.data,
                     passages |-> st.passages, scripts |-> st.scripts,
                     stylesheets |-> st.stylesheets, code_map |-> code_map],
          errors |-> <<>>, warnings |-> st.warnings, attempts |-> st.attempts]
    ELSE [tag |-> "Err", errors |-> st.errors.errors, code_map |-> code_map,
          warnings |-> st.warnings, attempts |-> st.attempts]

\* StoryPassages::parse
StoryPassagesParse(file_name, contents) ==
    ParseOutput(
        ParseLoop([title |-> NoPassage, data |-> NoPassage,
                   passages |-> EmptyMap, scripts |-> <<>>,
                   stylesheets |-> <<>>, warnings |-> <<>>, errors |-> Ok,
                   attempts |-> <<>>, panicked |-> FALSE],
                  file_name, SplitLines(contents), 1),
        CodeMapAdd(EmptyCodeMap, file_name))

\* The iteration orders a HashMap with key set S can have.

Orders(S) ==
    {o \in [1..Cardinality(S) -> S] : \A i, j \in DOMAIN o : o[i] = o[j] => i = j}
IndexOf(o, k) == CHOOSE i \in DOMAIN o : o[i] = k

\* StoryPassages::renumber_pids, the map iterated in `order`.
RenumberPids(story, start, order) ==
    LET old == story.passages
    IN  [story EXCEPT !.passages =
            [n \in DOMAIN old |->
                [old[n] EXCEPT !.content.pid = start + IndexOf(order, n) - 1]]]

\* StoryPassages::renumber_file_ids, the contexts drained in `order`.
RECURSIVE RenumberedIdFileMap(_, _, _, _)
RenumberedIdFileMap(contexts, start, order, i) ==
    IF i = 0 THEN {}
    ELSE BiMapInsert(RenumberedIdFileMap(contexts, start, order, i - 1),
                     order[i] + start, contexts[order[i]])

RenumberFileIds(story, start, order) ==
    LET old == story.code_map.contexts
    IN  [story EXCEPT !.code_map =
            [id_file_map |-> RenumberedIdFileMap(old, start, order, Len(order)),
             contexts |-> [id \in {k + start : k \in DOMAIN old} |->
                              old[id - start]]]]

\* from_context after StoryPassages::parse returned `out`: the Outputs it can
\* return, one for each iteration order of the passage map.
RenumberedOutputs(out) ==
    IF out.tag = "Ok"
    THEN {[out EXCEPT !.story = RenumberPids(@, 1, order)] :
             order \in Orders(DOMAIN out.story.passages)}
    ELSE {out}

\* from_context adding the MissingStoryTitle warning of check() itself.
FromContext_Checked(file_name, contents) ==
    {IF o.tag = "Ok" /\ o.story.title = NoPassage
     THEN [o EXCEPT !.warnings =
               Append(@, [kind |-> "MissingStoryTitle", row |-> 0, column |-> 0,
                          name |-> <<>>, context |-> NoContext,
                          referent |-> NoContext])]
     ELSE o :
        o \in RenumberedOutputs(StoryPassagesParse(file_name, contents))}

\* StoryPassages::from_context
FromContext(file_name, contents) ==
    RenumberedOutputs(StoryPassagesParse(file_name, contents))

\* StoryPassages::from_string: the context has no file name.
FromString(contents) == FromContext("None", contents)

\* HashMap::extend
MapExtend(m, more) ==
    [k \in DOMAIN m \cup DOMAIN more |->
        IF k \in DOMAIN more THEN more[k] ELSE m[k]]

\* The inserts of merge_from into self.code_map.id_file_map.
BiMapInsertAll(b, pairs) ==
    {pr \in b : \A q \in pairs : pr[1] # q[1] /\ pr[2] # q[2]} \cup pairs

\* The drain loop of merge_from over other.passages[order[i..]].
RECURSIVE DrainPassages(_, _, _, _)
DrainPassages(into, other, order, i) ==
    IF i > Len(order) THEN into
    ELSE LET name == order[i]
             passage == other[name]
         IN  DrainPassages(
                 IF name \in DOMAIN into.passages
                 THEN [into EXCEPT !.warnings =
                          Append(@, DuplicateWarning("DuplicatePassage", name,
                                        passage.context,
                                        into.passages[name].context))]
                 ELSE [into EXCEPT !.passages = MapInsert(@, name, passage)],
                 other, order, i + 1)

\* merge_from with the incoming unit winning over the accumulator.
MergeFrom_OtherWins(self, unit, order, idOrder) ==
    LET o1 == RenumberPids(unit, Cardinality(DOMAIN self.passages) + 1, order)
        other == RenumberFileIds(
                     o1, Cardinality(DOMAIN self.code_map.contexts), idOrder)
        both(x, y) == x # NoPassage /\ y # NoPassage
        w1 == IF both(self.title, other.title)
              THEN <<DuplicateWarning("DuplicateStoryTitle", <<>>,
                         other.title.context, self.title.context)>>
              ELSE <<>>
        w2 == IF both(self.data, other.data)
              THEN <<DuplicateWarning("DuplicateStoryData", <<>>,
                         other.data.context, self.data.context)>>
              ELSE <<>>
        drained == DrainPassages(
                       [passages |-> self.passages, warnings |-> w1 \o w2],
                       other.passages, order, 1)
    IN  [story |->
            [title |-> IF other.title # NoPassage THEN other.title
                       ELSE self.title,
             data |-> IF other.data # NoPassage THEN other.data
                      ELSE self.data,
             passages |-> MapExtend(self.passages, other.passages),
             scripts |-> other.scripts \o self.scripts,
             stylesheets |-> other.stylesheets \o self.stylesheets,
             code_map |->
                 [contexts |-> MapExtend(self.code_map.contexts,
                                         other.code_map.contexts),
                  id_file_map |-> BiMapInsertAll(self.code_map.id_file_map,
                                                 other.code_map.id_file_map)]],
         warnings |-> drained.warnings]

\* StoryPassages::merge_from; `order` is the iteration order of
\* other.passages, `idOrder` that of other.code_map.contexts.
MergeFrom(self, unit, order, idOrder) ==
    LET o1 == RenumberPids(unit, Cardinality(DOMAIN self.passages) + 1, order)
        other == RenumberFileIds(
                     o1, Cardinality(DOMAIN self.code_map.contexts), idOrder)
        both(x, y) == x # NoPassage /\ y # NoPassage
        w1 == IF both(self.title, other.title)
              THEN <<DuplicateWarning("DuplicateStoryTitle", <<>>,
                         other.title.context, self.title.context)>>
              ELSE <<>>
        w2 == IF both(self.data, other.data)
              THEN <<DuplicateWarning("DuplicateStoryData", <<>>,
                         other.data.context, self.data.context)>>
              ELSE <<>>
        drained == DrainPassages(
                       [passages |-> self.passages, warnings |-> w1 \o w2],
                       other.passages, order, 1)
    IN  [story |->
            [title |-> IF self.title = NoPassage THEN other.title
                       ELSE self.title,
             data |-> IF self.data = NoPassage THEN other.data
                      ELSE self.data,
             passages |-> drained.passages,
             scripts |-> self.scripts \o other.scripts,
             stylesheets |-> self.stylesheets \o other.stylesheets,
             code_map |->
                 [contexts |-> MapExtend(self.code_map.contexts,
                                         other.code_map.contexts),
                  id_file_map |-> BiMapInsertAll(self.code_map.id_file_map,
                                                 other.code_map.id_file_map)]],
         warnings |-> drained.warnings]

\* ------------------------------------------------------------------ check
S_Start == <<"S", "t", "a", "r", "t">>

\* Warning::new::<Context>(kind, None)
PlainWarning(kind) ==
    [kind |-> kind, row |-> 0, column |-> 0, name |-> <<>>,
     context |-> NoContext, referent |-> NoContext]

\* The StoryData of the story has been parsed and holds a `start` field.
HasStartField(story) ==
    /\ story.data # NoPassage
    /\ story.data.content.kind = "StoryData"
    /\ story.data.content.hasStart

\* DeadLinksFrom looking the target up without trimming it.
RECURSIVE DeadLinksFrom_Untrimmed(_, _, _)
DeadLinksFrom_Untrimmed(passage, keys, i) ==
    IF i > Len(passage.content.links) THEN <<>>
    ELSE (IF passage.content.links[i].target \notin keys
          THEN <<[kind |-> "DeadLink",
                  row |-> passage.content.links[i].row_offset,
                  column |-> passage.content.links[i].col_offset,
                  name |-> passage.content.links[i].target,
                  context |-> passage.context, referent |-> NoContext]>>
          ELSE <<>>) \o DeadLinksFrom_Untrimmed(passage, keys, i + 1)

\* The DeadLink warnings check() pushes for the links[i..] of one passage.
RECURSIVE DeadLinksFrom(_, _, _)
DeadLinksFrom(passage, keys, i) ==
    IF i > Len(passage.content.links) THEN <<>>
    ELSE (IF Trim(passage.content.links[i].target) \notin keys
          THEN <<[kind |-> "DeadLink",
                  row |-> passage.content.links[i].row_offset,
                  column |-> passage.content.links[i].col_offset,
                  name |-> passage.content.links[i].target,
                  context |-> passage.context, referent |-> NoContext]>>
          ELSE <<>>) \o DeadLinksFrom(passage, keys, i + 1)

\* The loop of check() over self.passages.values(), iterated in `order`.
RECURSIVE DeadLinks(_, _, _)
DeadLinks(story, order, i) ==
    IF i > Len(order) THEN <<>>
    ELSE DeadLinksFrom(story.passages[order[i]], DOMAIN story.passages, 1)
             \o DeadLinks(story, order, i + 1)

\* missing_start looking at the "Start" key only.
MissingStart_KeyOnly(story) == S_Start \notin DOMAIN story.passages

\* The value of `missing_start` when check() tests it: no passage is named
\* "Start" and no parsed `start` field has cleared it.
MissingStart(story) ==
    S_Start \notin DOMAIN story.passages /\ ~HasStartField(story)

\* StoryPassages::check
Check(story, order) ==
    (IF story.title = NoPassage
     THEN <<PlainWarning("MissingStoryTitle")>> ELSE <<>>)
    \o (IF story.data = NoPassage
        THEN <<PlainWarning("MissingStoryData")>> ELSE <<>>)
    \o (IF HasStartField(story)
           /\ story.data.content.start \notin DOMAIN story.passages
        THEN <<[kind |-> "DeadStartPassage", row |-> 0, column |-> 0,
                name |-> story.data.content.start,
                context |-> story.data.context, referent |-> NoContext]>>
        ELSE <<>>)
    \o (IF MissingStart(story)
        THEN <<PlainWarning("MissingStartPassage")>> ELSE <<>>)
    \o DeadLinks(story, order, 1)

\* GetStartPassageName returning the `start` field only if it names a passage.
GetStartPassageName_OnlyExisting(story) ==
    IF HasStartField(story)
       /\ story.data.content.start \in DOMAIN story.passages
    THEN [some |-> TRUE, name |-> story.data.content.start]
    ELSE IF S_Start \in DOMAIN story.passages
    THEN [some |-> TRUE, name |-> S_Start]
    ELSE [some |-> FALSE, name |-> <<>>]

\* StoryPassages::get_start_passage_name: Option<&str>
GetStartPassageName(story) ==
    IF HasStartField(story)
    THEN [some |-> TRUE, name |-> story.data.content.start]
    ELSE IF S_Start \in DOMAIN story.passages
    THEN [some |-> TRUE, name |-> S_Start]
    ELSE [some |-> FALSE, name |-> <<>>]

\* ------------------------------------------------------------------ paths
\* The file system the path functions read: files by name with their
\* contents, directories with their entries, and every other path missing.
DiskFiles ==
    [n \in {"a.twee", "b.twee", "c.tw", "d.twee", "notes.txt"} |->
        CASE n = "a.twee" -> <<":", ":", " ", "A">>
          [] n = "b.twee" -> <<":", ":">>
          [] n = "c.tw" -> <<"x">>
          [] n = "d.twee" -> <<":", ":", " ", "B", NL, "[", "[", "A", "]", "]">>
          [] n = "notes.txt" -> <<":", ":", " ", "N">>]
DiskDirs ==
    [n \in {"good", "bad"} |->
        IF n = "good" THEN {"a.twee", "notes.txt", "d.twee"}
        ELSE {"d.twee", "b.twee", "c.tw"}]
PathNames == {"a.twee", "b.twee", "c.tw", "d.twee", "good", "bad", "missing"}

\* Path::extension of a directory entry
Extension(n) ==
    CASE n = "c.tw" -> "tw" [] n = "notes.txt" -> "txt" [] OTHER -> "twee"

BadInputPath(path) ==
    [kind |-> "BadInputPath", row |-> 0, column |-> 0, name |-> <<path>>,
     context |-> NoContext, referent |-> NoContext]

\* What a path function hands back: the Output, and the files it gave to
\* from_context, in order.
PathOk(story, warnings, parsed) ==
    [tag |-> "Ok", story |-> story, errors |-> <<>>,
     code_map |-> story.code_map, warnings |-> warnings, parsed |-> parsed]
PathErr(errors, code_map, warnings, parsed) ==
    [tag |-> "Err", story |-> EmptyStory, errors |-> errors,
     code_map |-> code_map, warnings |-> warnings, parsed |-> parsed]

\* The results merge_from can give, over the HashMap orders of the unit.
Merges(self, unit) ==
    {MergeFrom(self, unit, order, idOrder) :
        order \in Orders(DOMAIN unit.passages),
        idOrder \in Orders(DOMAIN unit.code_map.contexts)}

\* The directory loop of from_path_internal from entry i on.
RECURSIVE DirLoop(_, _, _, _, _, _)
DirLoop(files, entries, i, story, warnings, parsed) ==
    IF i > Len(entries) THEN {PathOk(story, warnings, parsed)}
    ELSE IF Extension(entries[i]) \notin {"tw", "twee"}
    THEN DirLoop(files, entries, i + 1, story, warnings, parsed)
    ELSE UNION {
        IF out.tag = "Err"
        THEN {PathErr(out.errors, out.code_map, warnings,
                      Append(parsed, entries[i]))}
        ELSE UNION {DirLoop(files, entries, i + 1, m.story,
                            warnings \o out.warnings \o m.warnings,
                            Append(parsed, entries[i])) :
                       m \in Merges(story, out.story)} :
        out \in files[entries[i]]}

\* from_context on each file of the file system.
ReadFiles == [n \in DOMAIN DiskFiles |-> FromContext(n, DiskFiles[n])]

\* from_path_internal, `files` being what from_context gives for each file.
FromPathInternal(files, path) ==
    IF path \in DOMAIN DiskFiles
    THEN {IF out.tag = "Err"
          THEN PathErr(out.errors, out.code_map, out.warnings, <<path>>)
          ELSE PathOk(out.story, out.warnings, <<path>>) :
             out \in files[path]}
    ELSE IF path \in DOMAIN DiskDirs
    THEN UNION {DirLoop(files, entries, 1, EmptyStory, <<>>, <<>>) :
                   entries \in Orders(DiskDirs[path])}
    ELSE {PathErr(<<BadInputPath(path)>>, EmptyCodeMap, <<>>, <<>>)}

\* The Err return of from_paths: the failing path's errors, its code map
\* extended with the renumbered code map of the story so far.
PathsErr(story, e, warnings, parsed) ==
    {PathErr(e.errors,
             [contexts |->
                  MapExtend(e.code_map.contexts,
                      RenumberFileIds(story,
                          Cardinality(DOMAIN e.code_map.contexts),
                          idOrder).code_map.contexts),
              id_file_map |->
                  BiMapInsertAll(e.code_map.id_file_map,
                      RenumberFileIds(story,
                          Cardinality(DOMAIN e.code_map.contexts),
                          idOrder).code_map.id_file_map)],
             warnings \o e.warnings, parsed \o e.parsed) :
        idOrder \in Orders(DOMAIN story.code_map.contexts)}

\* The loop of from_paths from path i on, and the check() after it.
RECURSIVE FromPathsLoop(_, _, _, _, _, _)
FromPathsLoop(files, input, i, story, warnings, parsed) ==
    IF i > Len(input)
    THEN {PathOk(story, warnings \o Check(story, order), parsed) :
             order \in Orders(DOMAIN story.passages)}
    ELSE UNION {
        IF out.tag = "Err" THEN PathsErr(story, out, warnings, parsed)
        ELSE UNION {FromPathsLoop(files, input, i + 1, m.story,
                                  warnings \o out.warnings \o m.warnings,
                                  parsed \o out.parsed) :
                       m \in Merges(story, out.story)} :
        out \in FromPathInternal(files, input[i])}

\* from_paths
FromPathsOutputs(files, input) ==
    FromPathsLoop(files, input, 1, EmptyStory, <<>>, <<>>)

\* from_path: on Ok the warnings of check() are appended.
FromPathOutputs(files, path) ==
    UNION {IF out.tag = "Err" THEN {out}
           ELSE {PathOk(out.story, out.warnings \o Check(out.story, order),
                        out.parsed) :
                    order \in Orders(DOMAIN out.story.passages)} :
              out \in FromPathInternal(files, path)}

\* The strings handed to from_string: the contents of the files on disk.
StringInputs == {DiskFiles[n] : n \in DOMAIN DiskFiles}

\* from_context on the contents of each file of the file system, under the
\* name of the file and, as from_string builds the context, under no name.
ParseTable ==
    [nm \in {"None"} \cup DOMAIN DiskFiles, n \in DOMAIN DiskFiles |->
        FromContext(nm, DiskFiles[n])]
ReadNamed(table) == [n \in DOMAIN DiskFiles |-> table[n, n]]
ReadString(table, contents) ==
    UNION {table["None", n] : n \in {m \in DOMAIN DiskFiles : DiskFiles[m] = contents}}

\* ------------------------------------------------------------------ inputs
L_A == <<":", ":", " ", "A">>
L_B == <<":", ":", " ", "B">>
L_C == <<":", ":", " ", "C">>
L_Meta == <<":", ":", "A", " ", "{", "a", "}">>
L_Title == <<":", ":">> \o S_StoryTitle
L_Data == <<":", ":">> \o S_StoryData
L_Script == <<":", ":", "S", " ", "[">> \o S_script \o <<"]">>
L_Style == <<":", ":", "Y", " ", "[">> \o S_stylesheet \o <<"]">>
L_NoName == <<":", ":">>
L_Unclosed == <<":", ":", "[">>
L_Braces == <<":", ":", "}", "a", "{">>
L_x == <<"x">>
L_Link == <<"[", "[", " ", "B", "]", "]">>
L_Open == <<"[", "[", "x">>

PassageHeaders ==
    {L_A, L_Meta, L_Title, L_Data, L_Script, L_Style, L_NoName, L_Unclosed,
     L_Braces, L_x}
BodyLines == {L_x, <<>>, L_Link, L_Open, DataDoc}
SeqsUpTo(S, n) == UNION {[1..k -> S] : k \in 0..n}
PassageInputs ==
    {<<h>> \o b : h \in PassageHeaders, b \in SeqsUpTo(BodyLines, MaxContentLines)}

FileLines ==
    {L_A, L_B, L_Title, L_Data, L_Script, L_Style, L_Unclosed, L_Braces,
     L_x, L_Open}
Files ==
    [file_name : FileNames,
     contents : {Join(ls) : ls \in SeqsUpTo(FileLines, MaxLines)}]

\* Passages whose header combines the special names with the special tags.
DispatchNames == {S_StoryTitle, S_StoryData, <<"A">>}
DispatchTags ==
    {<<>>, <<"[">> \o S_script \o <<"]">>, <<"[">> \o S_stylesheet \o <<"]">>,
     <<"[">> \o S_script \o <<" ">> \o S_stylesheet \o <<"]">>,
     <<"[">> \o S_stylesheet \o <<" ">> \o S_script \o <<"]">>}
DispatchPassages ==
    {<<<<":", ":">> \o n \o (IF t = <<>> THEN <<>> ELSE <<" ">> \o t), L_x>> :
        n \in DispatchNames, t \in DispatchTags}

RECURSIVE DispatchLinesUpTo(_)
DispatchLinesUpTo(n) ==
    IF n = 0 THEN {<<>>}
    ELSE {ls \o p : ls \in DispatchLinesUpTo(n - 1),
                    p \in DispatchPassages \cup {<<>>}}

DispatchFiles ==
    [file_name : {"None"},
     contents : {Join(ls) : ls \in DispatchLinesUpTo(MaxDispatchPassages)}]

UnitContents ==
    {Join(ls) : ls \in {<<L_A, L_x>>, <<L_A, L_B>>, <<L_C>>,
                        <<L_Title, L_x, L_Data, DataDoc>>,
                        <<L_Title, L_A>>, <<L_Data, L_x, L_Script>>,
                        <<L_Script, L_Style>>, <<L_Style, L_Script, L_B>>}}
UnitNames == {"a.twee", "b.twee"}
Units == [file_name : UnitNames, contents : UnitContents]

L_Start == <<":", ":", " ">> \o S_Start
L_LinkC == <<"[", "[", "C", "]", "]">>
L_TwoLinks == <<"[", "[", "A", "]", "]", "[", "[", "C", "]", "]">>
CheckLines ==
    {L_Start, L_A, L_B, L_Data, L_Title, DataDoc, DataDocStart(<<"A">>),
     L_Link, L_LinkC, L_TwoLinks, L_x}
CheckFiles ==
    [file_name : {"None"},
     contents : {Join(ls) : ls \in SeqsUpTo(CheckLines, MaxLines)}]

\* Link texts: the separators of the three link formats, whitespace and text.
LinkTokens == {<<"|">>, <<"<", "-">>, <<"-", ">">>, <<" ">>, <<"a">>}

RECURSIVE InnersUpTo(_)
InnersUpTo(n) ==
    IF n = 0 THEN {<<>>}
    ELSE {t \o tok : t \in InnersUpTo(n - 1), tok \in LinkTokens \cup {<<>>}}

Inners == InnersUpTo(MaxInnerLen)

S_Open == <<"[", "[">>
S_Close == <<"]", "]">>

\* Contents of a Twine passage built around one link text: a closed link, a
\* closed link followed by unclosed ones, an unclosed link, an unclosed link
\* with `]]` on the next line, several closed links, and extra brackets.
LinkFrames == 1..6
Frame(k, inner) ==
    CASE k = 1 -> <<S_Open \o inner \o S_Close>>
      [] k = 2 -> <<S_Open \o inner \o S_Close \o S_Open \o <<"a">> \o S_Open>>
      [] k = 3 -> <<S_Open \o inner>>
      [] k = 4 -> <<S_Open \o <<"a">> \o S_Close \o S_Open \o inner \o S_Open,
                    S_Close>>
      [] k = 5 -> <<<<"a">> \o S_Open \o inner \o S_Close
                        \o S_Open \o <<" ", "a">> \o S_Close,
                    S_Open \o <<"a">> \o S_Close \o S_Open \o inner \o S_Close>>
      [] k = 6 -> <<<<"[">> \o S_Open \o inner \o S_Close \o <<"]">>>>

TwineInputs == {Frame(k, inner) : k \in LinkFrames, inner \in Inners}

\* The contents the pass-by-pass scan is entered with.
ScanInputs ==
    {Frame(k, inner) : k \in LinkFrames, inner \in InnersUpTo(MaxScanLen)}

\* ------------------------------------------------------------------ actions
HeaderIdle == line = <<>> /\ hdr = NotRun
MergeIdle == left = Ok /\ right = Ok /\ merged = NotRun
CtxIdle ==
    /\ src = <<>>
    /\ context = NotRun
    /\ call = NotRun
PassIdle == plines = <<>> /\ pres = NotRun
StoryIdle == file = NotRun /\ output = NotRun
UnitsIdle == acc = NotRun /\ lastMerge = NotRun /\ merges = 0
CheckIdle == checked = NotRun
PathsIdle == paths = <<>> /\ pathsOut = NotRun
LinksIdle == twine = <<>> /\ scanned = NotRun
LaterIdle == CheckIdle /\ PathsIdle /\ LinksIdle
OthersIdle == PassIdle /\ StoryIdle /\ UnitsIdle /\ LaterIdle

ParseHeader ==
    /\ hdr = NotRun
    /\ hdr' = PassageHeaderParse(line)
    /\ UNCHANGED <<line, mergeVars, ctxVars, passVars, storyVars, unitVars, laterVars>>

Merge ==
    /\ merged = NotRun
    /\ merged' = [tag |-> "Done",
                  res |-> ErrorListMerge(left, right),
                  left_after |-> Drained(left),
                  right_after |-> Drained(right)]
    /\ UNCHANGED <<hdrVars, left, right, ctxVars, passVars, storyVars, unitVars, laterVars>>

\* FullContext::from(file_name, src)
From ==
    /\ context = NotRun
    /\ call = NotRun
    /\ \E f \in FileNames :
          /\ context' = ContextFrom(f, src)
          /\ call' = [op |-> "from", file_name |-> f]
    /\ UNCHANGED <<hdrVars, mergeVars, src, passVars, storyVars, unitVars, laterVars>>

\* context.subcontext(r) for any range r; the result replaces context.  The
\* explored results are those whose coordinates stay within MaxPos.
WithinBox(c) ==
    c # Panicked =>
        /\ c.start_position.line <= MaxPos
        /\ c.start_position.column <= MaxPos
        /\ c.end_position.line <= MaxPos
        /\ c.end_position.column <= MaxPos

Subcontext ==
    /\ context # NotRun
    /\ context # Panicked
    /\ call = NotRun
    /\ \E r \in Ranges :
          /\ call' = [op |-> "subcontext", parent |-> context, range |-> r]
          /\ context' = IF SubcontextDefined(context, r)
                        THEN FullSubcontext(context, r)
                        ELSE Panicked
    /\ WithinBox(context')
    /\ UNCHANGED <<hdrVars, mergeVars, src, passVars, storyVars, unitVars, laterVars>>

\* context.subcontext(s..) of the context `from` returned, s absolute: the
\* context c the chain starts from.
ChainBase ==
    /\ call # NotRun /\ call.op = "from"
    /\ \E s \in ChainPositions("Absolute") :
          context' = FullSubcontext(context, <<Included(s), Unbounded>>)
    /\ call' = [op |-> "base"]
    /\ UNCHANGED <<hdrVars, mergeVars, src, passVars, storyVars, unitVars, laterVars>>

\* c.subcontext(a..=b) with relative a and b.
ChainFirst ==
    /\ call # NotRun /\ call.op = "base"
    /\ \E a \in ChainPositions("Relative"), b \in ChainPositions("Relative") :
          /\ context' = FullSubcontext(context, InclusiveRange(a, b))
          /\ call' = [op |-> "first", root |-> context, first |-> <<a, b>>]
    /\ UNCHANGED <<hdrVars, mergeVars, src, passVars, storyVars, unitVars, laterVars>>

\* .subcontext(p..=q) of the result, with relative p and q.
ChainSecond ==
    /\ call # NotRun /\ call.op = "first"
    /\ \E p \in ChainPositions("Relative"), q \in ChainPositions("Relative") :
          /\ context' = FullSubcontext(context, InclusiveRange(p, q))
          /\ call' = [op |-> "chain", root |-> call.root, first |-> call.first,
                      mid |-> context, second |-> <<p, q>>]
    /\ UNCHANGED <<hdrVars, mergeVars, src, passVars, storyVars, unitVars, laterVars>>

\* The caller goes on with the context it was handed.
Return ==
    /\ call # NotRun
    /\ context # Panicked
    /\ call' = NotRun
    /\ UNCHANGED <<hdrVars, mergeVars, src, context, passVars, storyVars, unitVars, laterVars>>

\* Passage::parse(plines)
ParsePassage ==
    /\ pres = NotRun
    /\ pres' = PassageParse(plines)
    /\ UNCHANGED <<hdrVars, mergeVars, ctxVars, plines, storyVars, unitVars, laterVars>>

\* StoryPassages::from_context(FullContext::from(file_name, contents))
StoryFromContext ==
    /\ output = NotRun
    /\ output' \in FromContext(file.file_name, file.contents)
    /\ UNCHANGED <<hdrVars, mergeVars, ctxVars, passVars, file, unitVars, laterVars>>

\* The units from_context returns Ok for.
LoadedUnits ==
    {o.story : o \in {r \in UNION {FromContext(u.file_name, u.contents) :
                                      u \in Units} : r.tag = "Ok"}}

\* One round of the loop of from_paths: a file is parsed by from_context and,
\* its result being Ok, merged into the accumulator.
MergeUnit ==
    /\ merges < MaxMerges
    /\ \E u \in LoadedUnits :
          \E order \in Orders(DOMAIN u.passages) :
             \E idOrder \in Orders(DOMAIN u.code_map.contexts) :
                /\ acc' = MergeFrom(acc, u, order, idOrder).story
                /\ lastMerge' = [self |-> acc, other |-> u,
                                 warnings |->
                                     MergeFrom(acc, u, order, idOrder).warnings]
    /\ merges' = merges + 1
    /\ UNCHANGED <<hdrVars, mergeVars, ctxVars, passVars, storyVars, laterVars>>

\* story.check() and story.get_start_passage_name() on the story that
\* from_context returned.
CheckStory ==
    /\ output # NotRun
    /\ output.tag = "Ok"
    /\ checked = NotRun
    /\ \E order \in Orders(DOMAIN output.story.passages) :
          checked' = [warnings |-> Check(output.story, order),
                      start |-> GetStartPassageName(output.story)]
    /\ UNCHANGED <<hdrVars, mergeVars, ctxVars, passVars, storyVars, unitVars,
                   pathVars, linkVars>>

\* TwineContent::parse(input) on the lines of a passage's content.
ScanLinks ==
    /\ scanned = NotRun
    /\ scanned' = TwineContentParse(twine)
    /\ UNCHANGED <<hdrVars, mergeVars, ctxVars, passVars, storyVars, unitVars,
                   checkVars, pathVars, twine>>

\* TwineContent::parse(input) is entered with the lines of a passage's content.
ScanEnter ==
    /\ scanned # NotRun /\ scanned.pc = "call"
    /\ twine' \in ScanInputs
    /\ scanned' = [scanned EXCEPT !.pc = "loop"]
    /\ UNCHANGED <<hdrVars, mergeVars, ctxVars, passVars, storyVars, unitVars,
                   checkVars, pathVars>>

\* TwineContent::parse, one pass of the inner loop that pushes a link and goes
\* on from its closing `]]`.
ScanPushLink ==
    /\ scanned # NotRun /\ scanned.pc = "loop" /\ scanned.row < Len(twine)
    /\ \E open \in {FindOpener(twine[scanned.row + 1], scanned.start)} \ {None} :
       \E end \in {FindCloser(twine[scanned.row + 1], open)} \ {None} :
       \E target \in {LinkTarget(Slice(twine[scanned.row + 1], open + 2, end))} :
          /\ scanned' =
                [scanned EXCEPT
                   !.start = NextStart(open, end), !.open = open, !.end = end,
                   !.links = @ \o <<[target |-> target, col_offset |-> open,
                                     row_offset |-> scanned.row]>>,
                   !.warnings = @ \o
                       (IF HasOuterWhitespace(target)
                        THEN <<RowWarn("WhitespaceInLink", scanned.row + 1,
                                       open + 1)>>
                        ELSE <<>>)]
    /\ UNCHANGED <<hdrVars, mergeVars, ctxVars, passVars, storyVars, unitVars,
                   checkVars, pathVars, twine>>

\* TwineContent::parse, the pass that finds `[[` without a `]]` after it:
\* pushes UnclosedLink and breaks, so the `for` moves to the next line.
ScanUnclosed ==
    /\ scanned # NotRun /\ scanned.pc = "loop" /\ scanned.row < Len(twine)
    /\ \E open \in {FindOpener(twine[scanned.row + 1], scanned.start)} \ {None} :
          /\ FindCloser(twine[scanned.row + 1], open) = None
          /\ scanned' =
                [scanned EXCEPT
                   !.row = @ + 1, !.start = 0, !.open = open, !.end = None,
                   !.warnings = @ \o <<RowWarn("UnclosedLink", scanned.row + 1,
                                               open + 1)>>]
    /\ UNCHANGED <<hdrVars, mergeVars, ctxVars, passVars, storyVars, unitVars,
                   checkVars, pathVars, twine>>

\* TwineContent::parse, the pass that finds no further `[[`: breaks, so the
\* `for` moves to the next line.
ScanBreak ==
    /\ scanned # NotRun /\ scanned.pc = "loop" /\ scanned.row < Len(twine)
    /\ FindOpener(twine[scanned.row + 1], scanned.start) = None
    /\ scanned' = [scanned EXCEPT !.row = @ + 1, !.start = 0, !.open = None,
                                  !.end = None]
    /\ UNCHANGED <<hdrVars, mergeVars, ctxVars, passVars, storyVars, unitVars,
                   checkVars, pathVars, twine>>

\* TwineContent::parse after the last line: the Output is built.
ScanReturn ==
    /\ scanned # NotRun /\ scanned.pc = "loop" /\ scanned.row >= Len(twine)
    /\ scanned' = [scanned EXCEPT !.pc = "done", !.open = None, !.end = None]
    /\ UNCHANGED <<hdrVars, mergeVars, ctxVars, passVars, storyVars, unitVars,
                   checkVars, pathVars, twine>>

\* StoryPassages::from_paths(&paths)
FromPaths ==
    /\ pathsOut = NotRun
    /\ \E out \in FromPathsOutputs(ReadFiles, paths) :
          pathsOut' = [call |-> "from_paths", out |-> out]
    /\ UNCHANGED <<hdrVars, mergeVars, ctxVars, passVars, storyVars, unitVars,
                   checkVars, paths, linkVars>>

\* StoryPassages::from_string(file.contents); `table` holds what from_context
\* returns for the contents.
FromStringOf(table) ==
    /\ output = NotRun
    /\ output' \in ReadString(table, file.contents)
    /\ UNCHANGED <<hdrVars, mergeVars, ctxVars, passVars, file, unitVars, laterVars>>

\* StoryPassages::from_path(&paths[0])
FromPathOf(table) ==
    /\ pathsOut = NotRun
    /\ Len(paths) = 1
    /\ \E out \in FromPathOutputs(ReadNamed(table), paths[1]) :
          pathsOut' = [call |-> "from_path", out |-> out]
    /\ UNCHANGED <<hdrVars, mergeVars, ctxVars, passVars, storyVars, unitVars,
                   checkVars, paths, linkVars>>

\* StoryPassages::from_paths(&paths)
FromPathsOf(table) ==
    /\ pathsOut = NotRun
    /\ \E out \in FromPathsOutputs(ReadNamed(table), paths) :
          pathsOut' = [call |-> "from_paths", out |-> out]
    /\ UNCHANGED <<hdrVars, mergeVars, ctxVars, passVars, storyVars, unitVars,
                   checkVars, paths, linkVars>>

\* ------------------------------------------------------------------ specifications
InitHeader ==
    /\ line \in HeaderLines
    /\ hdr = NotRun
    /\ MergeIdle
    /\ CtxIdle
    /\ OthersIdle

NextHeader == ParseHeader

SpecHeader == InitHeader /\ [][NextHeader]_vars

InitMeta ==
    /\ line \in MetaLines
    /\ hdr = NotRun
    /\ MergeIdle
    /\ CtxIdle
    /\ OthersIdle

SpecMeta == InitMeta /\ [][NextHeader]_vars

InitTags ==
    /\ line \in TagLines
    /\ hdr = NotRun
    /\ MergeIdle
    /\ CtxIdle
    /\ OthersIdle

SpecTags == InitTags /\ [][NextHeader]_vars

InitMerge ==
    /\ left \in Results
    /\ right \in Results
    /\ merged = NotRun
    /\ HeaderIdle
    /\ CtxIdle
    /\ OthersIdle

NextMerge == Merge

SpecMerge == InitMerge /\ [][NextMerge]_vars

InitCtx ==
    /\ src \in Texts
    /\ context = NotRun
    /\ call = NotRun
    /\ HeaderIdle
    /\ MergeIdle
    /\ OthersIdle

NextCtx == From \/ Subcontext \/ Return

SpecCtx == InitCtx /\ [][NextCtx]_vars

InitPassage ==
    /\ plines \in PassageInputs
    /\ pres = NotRun
    /\ HeaderIdle /\ MergeIdle /\ CtxIdle /\ StoryIdle /\ UnitsIdle
    /\ LaterIdle

NextPassage == ParsePassage

SpecPassage == InitPassage /\ [][NextPassage]_vars

InitStory ==
    /\ file \in Files
    /\ output = NotRun
    /\ HeaderIdle /\ MergeIdle /\ CtxIdle /\ PassIdle /\ UnitsIdle
    /\ LaterIdle

NextStory == StoryFromContext

SpecStory == InitStory /\ [][NextStory]_vars

InitDispatch ==
    /\ file \in DispatchFiles
    /\ output = NotRun
    /\ HeaderIdle /\ MergeIdle /\ CtxIdle /\ PassIdle /\ UnitsIdle
    /\ LaterIdle

SpecDispatch == InitDispatch /\ [][NextStory]_vars

InitChain ==
    /\ src \in ChainTexts
    /\ context = NotRun
    /\ call = NotRun
    /\ HeaderIdle /\ MergeIdle /\ OthersIdle

NextChain == From \/ ChainBase \/ ChainFirst \/ ChainSecond

SpecChain == InitChain /\ [][NextChain]_vars

InitUnits ==
    /\ acc = EmptyStory
    /\ lastMerge = NotRun
    /\ merges = 0
    /\ HeaderIdle /\ MergeIdle /\ CtxIdle /\ PassIdle /\ StoryIdle
    /\ LaterIdle

NextUnits == MergeUnit

SpecUnits == InitUnits /\ [][NextUnits]_vars

InitCheck ==
    /\ file \in CheckFiles
    /\ output = NotRun
    /\ checked = NotRun
    /\ HeaderIdle /\ MergeIdle /\ CtxIdle /\ PassIdle /\ UnitsIdle
    /\ PathsIdle /\ LinksIdle

NextCheck == StoryFromContext \/ CheckStory

SpecCheck == InitCheck /\ [][NextCheck]_vars

InitPaths ==
    /\ paths \in UNION {[1..k -> PathNames] : k \in 1..MaxPaths}
    /\ pathsOut = NotRun
    /\ HeaderIdle /\ MergeIdle /\ CtxIdle /\ PassIdle /\ StoryIdle /\ UnitsIdle
    /\ CheckIdle /\ LinksIdle

NextPaths == FromPaths

SpecPaths == InitPaths /\ [][NextPaths]_vars

InitEntry ==
    /\ file \in [file_name : {"None"}, contents : StringInputs]
    /\ output = NotRun
    /\ paths \in UNION {[1..k -> PathNames] : k \in 1..MaxPaths}
    /\ pathsOut = NotRun
    /\ HeaderIdle /\ MergeIdle /\ CtxIdle /\ PassIdle /\ UnitsIdle
    /\ CheckIdle /\ LinksIdle

NextEntry ==
    \E table \in {ParseTable} :
        FromStringOf(table) \/ FromPathOf(table) \/ FromPathsOf(table)

SpecEntry == InitEntry /\ [][NextEntry]_vars

InitLinks ==
    /\ twine \in TwineInputs
    /\ scanned = NotRun
    /\ HeaderIdle /\ MergeIdle /\ CtxIdle /\ PassIdle /\ StoryIdle /\ UnitsIdle
    /\ CheckIdle /\ PathsIdle

NextLinks == ScanLinks

SpecLinks == InitLinks /\ [][NextLinks]_vars

InitScan ==
    /\ twine = <<>>
    /\ scanned = ScanStart
    /\ HeaderIdle /\ MergeIdle /\ CtxIdle /\ PassIdle /\ StoryIdle /\ UnitsIdle
    /\ CheckIdle /\ PathsIdle

NextScan == ScanEnter \/ ScanPushLink \/ ScanUnclosed \/ ScanBreak \/ ScanReturn

\* The scan runs on its own thread of control: a pass that can be taken is
\* taken.
SpecScan == InitScan /\ [][NextScan]_vars /\ WF_vars(NextScan)

\* ------------------------------------------------------------------ claims

\* C1: PassageHeader::parse returns a value (Ok or Err) for every header line:
\* every range it slices the line with satisfies start <= end <= line length,
\* so it never panics.
C1_ParseNeverPanics ==
    hdr # NotRun =>
        /\ hdr.tag \in {"Ok", "Err"}
        /\ \A r \in hdr.ranges : ValidRange(r, Len(line))

\* C4: ErrorList::merge returns Ok(()) if and only if both inputs are Ok, and
\* otherwise Err of left's errors followed by right's errors.
C4_MergeOkIffBothOk ==
    merged # NotRun =>
        /\ IsOk(merged.res) <=> (IsOk(left) /\ IsOk(right))
        /\ IsErr(merged.res) =>
              merged.res.errors =
                  (IF IsErr(left) THEN left.errors ELSE <<>>)
                  \o (IF IsErr(right) THEN right.errors ELSE <<>>)

\* The lines of a text, as the program's callers see them: the pieces between
\* newlines (a trailing newline is followed by one last, empty line).
NumLines(s) == Len(MatchIndices(s, <<NL>>)) + 1
LastLineLen(s) ==
    LET nl == RFind(s, <<NL>>)
    IN  IF nl = None THEN Len(s) ELSE Len(s) - (nl + 1)

IsContext(c) == c # NotRun /\ c # Panicked
FromReturned == call # NotRun /\ call.op = "from"
SubcontextReturned == call # NotRun /\ call.op = "subcontext"

\* C5: round trip: FullContext::from(None, s).get_contents() = s, its start is
\* (1,1) and its end is (number of lines, length of the last line).
C5_FromRoundTrip ==
    FromReturned =>
        /\ GetContentsDefined(context)
        /\ GetContents(context) = src
        /\ context.start_position = Abs(1, 1)
        /\ context.end_position = Abs(NumLines(src), LastLineLen(src))

C5_Witness ==
    /\ FromReturned
    /\ NumLines(src) >= 2
    /\ src[Len(src)] = NL
    /\ GetContents(context) = src

\* C6: the byte range of c.subcontext(r) lies within the byte range of c, and
\* the result keeps c's file name, buffer and line-start table.
C6_SubcontextWithinParent ==
    (SubcontextReturned /\ IsContext(context) /\ ByteRangeDefined(call.parent)) =>
        /\ ByteRangeDefined(context)
        /\ GetByteRange(call.parent)[1] <= GetByteRange(context)[1]
        /\ GetByteRange(context)[2] <= GetByteRange(call.parent)[2]
        /\ context.file_name = call.parent.file_name
        /\ context.contents = call.parent.contents
        /\ context.line_starts = call.parent.line_starts

\* What Passage::parse must return for a header parsed to `h` whose content,
\* parsed if h is Ok, gives `c`.
CombinesContent(out, h, c) ==
    /\ out.contentInvoked
    /\ out.res.tag = ErrorListMerge(Ok, c.res).tag
    /\ out.res.errors = ErrorListMerge(Ok, c.res).errors
    /\ out.warnings = SetRow(h.warnings, 1) \o OffsetRow(c.warnings, 1)
CombinesHeader(out, h, lines) ==
    /\ h.tag = "Err" =>
          ~out.contentInvoked /\ out.res = ErrOf(SetRow(h.errors, 1))
    /\ h.tag = "Ok" =>
          CombinesContent(out, h, ContentParse(h, ContentLines(lines)))

\* C3: Passage::parse returns, for a header that parses to Err, exactly the
\* header's errors without invoking a content parser; for a header that parses
\* to Ok, the ErrorList::merge of the header's and the content's results, with
\* the content warnings after the header warnings.
C3_PassageParseCombines ==
    (pres # NotRun /\ pres # Panicked) =>
        CombinesHeader(pres, PassageHeaderParse(plines[1]), plines)

\* C3 witness: a header Err returned although the content holds an unclosed
\* link the content parser would have warned about.
C3_Witness ==
    /\ pres # NotRun
    /\ pres # Panicked
    /\ pres.res.tag = "Err"
    /\ ~pres.contentInvoked
    /\ pres.warnings = <<>>
    /\ Len(plines) > 1
    /\ plines[2] = L_Open

\* The candidate passages of a file: a passage starts at line 1 and at every
\* later header line, and ends before the next start.
PassageStarts(lines) == {1} \cup {i \in 2..Len(lines) : IsHeaderLine(lines[i])}
CandidateEnd(lines, s) ==
    LET later == {t \in PassageStarts(lines) : t > s}
    IN  IF later = {} THEN Len(lines)
        ELSE (CHOOSE t \in later : \A u \in later : t <= u) - 1
RECURSIVE Ascending(_)
Ascending(S) ==
    IF S = {} THEN <<>>
    ELSE LET m == CHOOSE x \in S : \A y \in S : x <= y
         IN  <<m>> \o Ascending(S \ {m})
Candidate(ctx, out) ==
    [context |-> ctx,
     tag |-> IF out = Panicked THEN "Panic" ELSE out.res.tag,
     errors |-> IF out = Panicked THEN <<>> ELSE InContext(out.res.errors, ctx),
     warnings |-> IF out = Panicked THEN <<>> ELSE InContext(out.warnings, ctx),
     kind |-> IF out # Panicked /\ out.res.tag = "Ok"
              THEN out.res.passage.content.kind ELSE "None",
     name |-> IF out # Panicked /\ out.res.tag = "Ok"
              THEN out.res.passage.name ELSE <<>>]
CandidatesOf(file_name, lines, starts) ==
    [i \in 1..Len(starts) |->
        Candidate(PassageContext(file_name, starts[i],
                                 CandidateEnd(lines, starts[i])),
                  PassageParse(SubSeq(lines, starts[i],
                                      CandidateEnd(lines, starts[i]))))]
Candidates(f) ==
    CandidatesOf(f.file_name, SplitLines(f.contents),
                 Ascending(PassageStarts(SplitLines(f.contents))))

RECURSIVE ConcatField(_, _)
ConcatField(cs, fld) ==
    IF cs = <<>> THEN <<>> ELSE cs[1][fld] \o ConcatField(Tail(cs), fld)
DuplicateKinds ==
    {"DuplicatePassage", "DuplicateStoryTitle", "DuplicateStoryData"}
IsDuplicateWarning(w) == w.kind \in DuplicateKinds
IsPassageWarning(w) == w.kind \notin DuplicateKinds
Returned(o) == o # NotRun /\ o.tag \in {"Ok", "Err"}

\* C2: when at least one candidate passage of the input fails, from_context
\* has handed every candidate to Passage::parse and returns Err with the
\* errors of the failing passages concatenated in source order, together with
\* the warnings of all passages.
C2_ParseContinuesAfterFailure ==
    output # NotRun =>
        LET cs == Candidates(file)
        IN  (\E i \in DOMAIN cs : cs[i].tag = "Err") =>
                /\ output.tag = "Err"
                /\ output.attempts = [i \in DOMAIN cs |-> cs[i].context]
                /\ output.errors = ConcatField(cs, "errors")
                /\ SelectSeq(output.warnings, IsPassageWarning)
                       = ConcatField(cs, "warnings")

\* The same accumulation for the inputs none of whose headers makes
\* PassageHeader::parse panic.
ParseAccumulatesUnlessPanic ==
    output # NotRun =>
        LET cs == Candidates(file)
        IN  ((\E i \in DOMAIN cs : cs[i].tag = "Err")
                /\ (\A i \in DOMAIN cs : cs[i].tag # "Panic")) =>
                /\ output.tag = "Err"
                /\ output.attempts = [i \in DOMAIN cs |-> cs[i].context]
                /\ output.errors = ConcatField(cs, "errors")
                /\ SelectSeq(output.warnings, IsPassageWarning)
                       = ConcatField(cs, "warnings")

\* Candidates i and j hold the same unique item: Normal passages of one name,
\* two StoryTitle passages or two StoryData passages.
SameItem(cs, i, j) ==
    /\ cs[i].kind \in {"Normal", "StoryTitle", "StoryData"}
    /\ cs[i].kind = cs[j].kind
    /\ cs[i].kind = "Normal" => cs[i].name = cs[j].name
FirstOccurrence(cs, i) ==
    CHOOSE j \in 1..i : SameItem(cs, i, j) /\ \A k \in 1..(j - 1) : ~SameItem(cs, i, k)
IsLaterOccurrence(cs, i) ==
    \E j \in 1..(i - 1) : SameItem(cs, i, j)
DuplicateKindOf(kind) ==
    IF kind = "Normal" THEN "DuplicatePassage"
    ELSE IF kind = "StoryTitle" THEN "DuplicateStoryTitle"
    ELSE "DuplicateStoryData"
RECURSIVE ExpectedDuplicates(_, _)
ExpectedDuplicates(cs, i) ==
    IF i > Len(cs) THEN <<>>
    ELSE (IF IsLaterOccurrence(cs, i)
          THEN <<DuplicateWarning(DuplicateKindOf(cs[i].kind),
                     IF cs[i].kind = "Normal" THEN cs[i].name ELSE <<>>,
                     cs[i].context, cs[FirstOccurrence(cs, i)].context)>>
          ELSE <<>>) \o ExpectedDuplicates(cs, i + 1)
ContextsOf(ps) == [i \in DOMAIN ps |-> ps[i].context]
OfKind(cs, kind) == {i \in DOMAIN cs : cs[i].kind = kind}
KindContexts(cs, kind) ==
    LET idx == Ascending(OfKind(cs, kind))
    IN  [i \in DOMAIN idx |-> cs[idx[i]].context]

\* C7: in the output of from_context the stored Normal passage of a name, the
\* stored StoryTitle and the stored StoryData are the first occurrences in
\* source order; every later occurrence is absent from the story and has
\* exactly one Duplicate* warning with itself as context and the stored
\* passage as referent; scripts and stylesheets are all kept in source order.
C7_FirstOccurrenceWins ==
    Returned(output) =>
        LET cs == Candidates(file)
        IN  /\ SelectSeq(output.warnings, IsDuplicateWarning)
                   = ExpectedDuplicates(cs, 1)
            /\ output.tag = "Ok" =>
                LET st == output.story
                IN  /\ DOMAIN st.passages
                           = {cs[i].name : i \in OfKind(cs, "Normal")}
                    /\ \A i \in OfKind(cs, "Normal") :
                           st.passages[cs[i].name].context
                               = cs[FirstOccurrence(cs, i)].context
                    /\ \A i \in OfKind(cs, "StoryTitle") :
                           /\ st.title # NoPassage
                           /\ st.title.context = cs[FirstOccurrence(cs, i)].context
                    /\ OfKind(cs, "StoryTitle") = {} => st.title = NoPassage
                    /\ \A i \in OfKind(cs, "StoryData") :
                           /\ st.data # NoPassage
                           /\ st.data.context = cs[FirstOccurrence(cs, i)].context
                    /\ OfKind(cs, "StoryData") = {} => st.data = NoPassage
                    /\ ContextsOf(st.scripts) = KindContexts(cs, "Script")
                    /\ ContextsOf(st.stylesheets) = KindContexts(cs, "Stylesheet")

\* C7 witness: an Ok story that met a second Normal passage of a stored name.
C7_Witness ==
    /\ Returned(output)
    /\ output.tag = "Ok"
    /\ \E i \in DOMAIN output.warnings :
          /\ output.warnings[i].kind = "DuplicatePassage"
          /\ output.warnings[i].context.first > output.warnings[i].referent.first
          /\ output.story.passages[output.warnings[i].name].context
                 = output.warnings[i].referent

\* The warnings of one kind (and, for DuplicatePassage, one name).
WarningsOf(ws, kind, name) ==
    {i \in DOMAIN ws : ws[i].kind = kind /\ ws[i].name = name}
ExactlyOne(ws, kind, name, ctx, referent) ==
    /\ Cardinality(WarningsOf(ws, kind, name)) = 1
    /\ \A i \in WarningsOf(ws, kind, name) :
          ws[i].context = ctx /\ ws[i].referent = referent
\* Passages equal apart from the pid merge_from renumbers.
SameButPid(p, q) ==
    [p EXCEPT !.content.pid = 0] = [q EXCEPT !.content.pid = 0]

\* C8: merge_from keeps self's StoryTitle, StoryData and passages over
\* other's, returning exactly one Duplicate* warning per clash with other's
\* passage as context and self's as referent; it inserts the names only other
\* holds and appends other's scripts and stylesheets after self's.
C8_MergeFirstWins ==
    lastMerge # NotRun =>
        LET self == lastMerge.self
            other == lastMerge.other
            ws == lastMerge.warnings
            common == DOMAIN self.passages \cap DOMAIN other.passages
        IN  /\ IF self.title # NoPassage /\ other.title # NoPassage
               THEN ExactlyOne(ws, "DuplicateStoryTitle", <<>>,
                               other.title.context, self.title.context)
               ELSE WarningsOf(ws, "DuplicateStoryTitle", <<>>) = {}
            /\ acc.title = IF self.title # NoPassage THEN self.title
                           ELSE other.title
            /\ IF self.data # NoPassage /\ other.data # NoPassage
               THEN ExactlyOne(ws, "DuplicateStoryData", <<>>,
                               other.data.context, self.data.context)
               ELSE WarningsOf(ws, "DuplicateStoryData", <<>>) = {}
            /\ acc.data = IF self.data # NoPassage THEN self.data
                          ELSE other.data
            /\ DOMAIN acc.passages = DOMAIN self.passages \cup DOMAIN other.passages
            /\ \A n \in DOMAIN self.passages : acc.passages[n] = self.passages[n]
            /\ \A n \in DOMAIN other.passages \ common :
                   SameButPid(acc.passages[n], other.passages[n])
            /\ \A n \in common :
                   ExactlyOne(ws, "DuplicatePassage", n,
                              other.passages[n].context,
                              self.passages[n].context)
            /\ Len(ws) = Cardinality(common)
                   + Cardinality(WarningsOf(ws, "DuplicateStoryTitle", <<>>))
                   + Cardinality(WarningsOf(ws, "DuplicateStoryData", <<>>))
            /\ acc.scripts = self.scripts \o other.scripts
            /\ acc.stylesheets = self.stylesheets \o other.stylesheets

\* C8 witness: a merge in which both units hold a StoryTitle and a passage of
\* the same name, and both hold scripts or the accumulator gained a passage.
C8_Witness ==
    /\ lastMerge # NotRun
    /\ lastMerge.self.title # NoPassage
    /\ lastMerge.other.title # NoPassage
    /\ lastMerge.self.title.context # lastMerge.other.title.context
    /\ DOMAIN lastMerge.self.passages \cap DOMAIN lastMerge.other.passages # {}
    /\ Len(lastMerge.warnings) = 2

Pids(st) == {st.passages[n].content.pid : n \in DOMAIN st.passages}

\* C9: the pids of the passages of the accumulator are pairwise distinct and
\* are exactly 1..n for its n passages.
C9_PidsDense ==
    /\ Pids(acc) = 1..Cardinality(DOMAIN acc.passages)
    /\ \A n, m \in DOMAIN acc.passages :
          acc.passages[n].content.pid = acc.passages[m].content.pid => n = m

\* The units handed to merge_from come out of from_context with pids 1..n.
UnitPidsDense ==
    \A u \in LoadedUnits : Pids(u) = 1..Cardinality(DOMAIN u.passages)

\* The pids of the accumulator are at least pairwise distinct.
PidsDistinct ==
    \A n, m \in DOMAIN acc.passages :
        acc.passages[n].content.pid = acc.passages[m].content.pid => n = m

\* C10: the code map of the accumulator gives every merged file its own id:
\* id_file_map is one-to-one, has the ids of `contexts`, and lookup_name(id)
\* is the file name of the context stored under id.
C10_CodeMapBijection ==
    LET cm == acc.code_map
    IN  /\ \A pr, q \in cm.id_file_map :
              (pr[1] = q[1] \/ pr[2] = q[2]) => pr = q
        /\ {pr[1] : pr \in cm.id_file_map} = DOMAIN cm.contexts
        /\ \A id \in DOMAIN cm.contexts : LookupName(cm, id) = cm.contexts[id]
        /\ Cardinality(DOMAIN cm.contexts) = merges

KindCount(ws, kind) == Cardinality({i \in DOMAIN ws : ws[i].kind = kind})

\* C12: check() emits exactly one MissingStartPassage warning if a StoryData
\* passage exists, its data has no `start` field and no passage is named
\* "Start", and none in every other case (no StoryData passage included).
C12_MissingStartPassageIff ==
    checked # NotRun =>
        KindCount(checked.warnings, "MissingStartPassage")
            = IF /\ output.story.data # NoPassage
                 /\ ~HasStartField(output.story)
                 /\ S_Start \notin DOMAIN output.story.passages
              THEN 1 ELSE 0

\* With a StoryData passage in the story, MissingStartPassage is emitted
\* exactly when there is neither a `start` field nor a "Start" passage.
MissingStartPassageWithData ==
    (checked # NotRun /\ output.story.data # NoPassage) =>
        KindCount(checked.warnings, "MissingStartPassage")
            = IF ~HasStartField(output.story)
                 /\ S_Start \notin DOMAIN output.story.passages
              THEN 1 ELSE 0

\* C13: a `start` field naming no passage of the map gives exactly one
\* DeadStartPassage(name) warning on the StoryData passage, no
\* MissingStartPassage, and get_start_passage_name() = Some(name); a `start`
\* field naming a passage of the map gives neither warning.
C13_DeadStartPassage ==
    (checked # NotRun /\ HasStartField(output.story)) =>
        /\ KindCount(checked.warnings, "MissingStartPassage") = 0
        /\ checked.start
               = [some |-> TRUE, name |-> output.story.data.content.start]
        /\ IF output.story.data.content.start \in DOMAIN output.story.passages
           THEN KindCount(checked.warnings, "DeadStartPassage") = 0
           ELSE /\ KindCount(checked.warnings, "DeadStartPassage") = 1
                /\ \A i \in DOMAIN checked.warnings :
                      checked.warnings[i].kind = "DeadStartPassage" =>
                          /\ checked.warnings[i].name
                                 = output.story.data.content.start
                          /\ checked.warnings[i].context
                                 = output.story.data.context

\* C13 witness: check() ran on a story whose `start` field names no passage
\* although the story has passages.
C13_Witness ==
    /\ checked # NotRun
    /\ HasStartField(output.story)
    /\ output.story.data.content.start \notin DOMAIN output.story.passages
    /\ DOMAIN output.story.passages # {}
    /\ KindCount(checked.warnings, "DeadStartPassage") = 1

\* The DeadLink warnings for the link at (row, column) of the passage `ctx`.
DeadLinkWarnings(ws, ctx, lnk) ==
    {i \in DOMAIN ws :
        /\ ws[i].kind = "DeadLink"
        /\ ws[i].context = ctx
        /\ ws[i].row = lnk.row_offset
        /\ ws[i].column = lnk.col_offset
        /\ ws[i].name = lnk.target}
AllLinks(story) ==
    {<<n, i>> : n \in DOMAIN story.passages, i \in 1..(MaxLines * 2)} \cap
    UNION {{<<n, i>> : i \in DOMAIN story.passages[n].content.links} :
              n \in DOMAIN story.passages}
IsDead(story, nl) ==
    Trim(story.passages[nl[1]].content.links[nl[2]].target)
        \notin DOMAIN story.passages

\* C14: check() emits exactly one DeadLink warning, with the untrimmed target
\* and the link's position, for each link of each passage whose trimmed target
\* is not a key of the passages map, and none for any other link.
C14_DeadLinks ==
    checked # NotRun =>
        /\ \A nl \in AllLinks(output.story) :
              Cardinality(DeadLinkWarnings(checked.warnings,
                              output.story.passages[nl[1]].context,
                              output.story.passages[nl[1]].content.links[nl[2]]))
                  = IF IsDead(output.story, nl) THEN 1 ELSE 0
        /\ KindCount(checked.warnings, "DeadLink")
               = Cardinality({nl \in AllLinks(output.story) :
                                 IsDead(output.story, nl)})

\* C14 witness: check() ran on a story with a dead link and with a link whose
\* target matches a passage name only after trimming.
C14_Witness ==
    /\ checked # NotRun
    /\ KindCount(checked.warnings, "DeadLink") > 0
    /\ \E nl \in AllLinks(output.story) :
          /\ ~IsDead(output.story, nl)
          /\ output.story.passages[nl[1]].content.links[nl[2]].target
                 \notin DOMAIN output.story.passages

SetMin(S) == CHOOSE x \in S : \A y \in S : x <= y
IsOpenAt(t, p) == p + 2 <= Len(t) /\ t[p + 1] = "[" /\ t[p + 2] = "["
IsCloseAt(t, p) == p + 2 <= Len(t) /\ t[p + 1] = "]" /\ t[p + 2] = "]"
ClosesFrom(t, p) == {q \in p..(Len(t) - 2) : IsCloseAt(t, q)}

\* The text between the `[[` at 0-based column `col` and the next `]]`.
InnerAt(t, col) == Slice(t, col + 2, SetMin(ClosesFrom(t, col)))

\* The offsets of the openers of the closed links of a line, read character
\* by character from offset p: after a closed link the reading resumes at its
\* `]]`, and it ends at the first `[[` with no `]]` after it.
RECURSIVE ClosedLinksFrom(_, _)
ClosedLinksFrom(t, p) ==
    IF p + 2 > Len(t) THEN {}
    ELSE IF IsOpenAt(t, p)
    THEN IF ClosesFrom(t, p) = {} THEN {}
         ELSE {p} \cup ClosedLinksFrom(t, SetMin(ClosesFrom(t, p)))
    ELSE ClosedLinksFrom(t, p + 1)

Occurrences(t, pat) == {i \in 0..(Len(t) - Len(pat)) : MatchAt(t, pat, i)}
S_Bar == <<"|">>
S_Left == <<"<", "-">>
S_Right == <<"-", ">">>

\* The targets the stated rule allows: after the last `|`; else before `<-`;
\* else after `->` (with several arrows, the first or the last one); else the
\* whole text.
RuleTargets(inner) ==
    IF Occurrences(inner, S_Bar) # {}
    THEN {Slice(inner, i + 1, Len(inner)) :
             i \in {j \in Occurrences(inner, S_Bar) :
                       \A k \in Occurrences(inner, S_Bar) : k <= j}}
    ELSE IF Occurrences(inner, S_Left) # {}
    THEN {Slice(inner, 0, i) :
             i \in {j \in Occurrences(inner, S_Left) :
                       \/ \A k \in Occurrences(inner, S_Left) : k <= j
                       \/ \A k \in Occurrences(inner, S_Left) : j <= k}}
    ELSE IF Occurrences(inner, S_Right) # {}
    THEN {Slice(inner, i + 2, Len(inner)) :
             i \in {j \in Occurrences(inner, S_Right) :
                       \/ \A k \in Occurrences(inner, S_Right) : k <= j
                       \/ \A k \in Occurrences(inner, S_Right) : j <= k}}
    ELSE {inner}

\* The separator that selects the rule for a link text, <<>> if none.
RuleSeparator(inner) ==
    IF Occurrences(inner, S_Bar) # {} THEN S_Bar
    ELSE IF Occurrences(inner, S_Left) # {} THEN S_Left
    ELSE IF Occurrences(inner, S_Right) # {} THEN S_Right
    ELSE <<>>

LinkInner(lnk) == InnerAt(twine[lnk.row_offset + 1], lnk.col_offset)

\* C17: the recorded target of every closed link is chosen by the first
\* matching rule: the text after the last `|`; else the text before `<-`; else
\* the text after `->`; else the whole inner text, whatever the inner text is.
C17_LinkTargetRule ==
    scanned # NotRun =>
        \A i \in DOMAIN scanned.content.links :
            scanned.content.links[i].target
                \in RuleTargets(LinkInner(scanned.content.links[i]))

\* The rule holds for every link text in which the selecting separator occurs
\* exactly once.
LinkTargetRuleSingleSeparator ==
    scanned # NotRun =>
        \A i \in DOMAIN scanned.content.links :
            Cardinality(Occurrences(LinkInner(scanned.content.links[i]),
                            RuleSeparator(LinkInner(scanned.content.links[i]))))
                    <= 1
                \/ RuleSeparator(LinkInner(scanned.content.links[i])) = <<>>
            => scanned.content.links[i].target
                   \in RuleTargets(LinkInner(scanned.content.links[i]))

UnclosedOpeners(t) ==
    {p \in 0..(Len(t) - 2) : IsOpenAt(t, p) /\ ClosesFrom(t, p) = {}}
RowWarnings(kind, r) ==
    {i \in DOMAIN scanned.warnings :
        scanned.warnings[i].kind = kind /\ scanned.warnings[i].row = r + 1}
RowLinks(r) ==
    {i \in DOMAIN scanned.content.links :
        scanned.content.links[i].row_offset = r}
RowLinkColumns(r) == {scanned.content.links[i].col_offset : i \in RowLinks(r)}

\* C18: on a line with a `[[` that has no `]]` after it on that line, the scan
\* gives exactly one UnclosedLink warning, at the row and column of the first
\* such opener, records no link at or after it and considers nothing after
\* it; the links closed before it are recorded; the following lines play no
\* part.  A line without such an opener gives no UnclosedLink warning.
C18_UnclosedLink ==
    scanned # NotRun =>
        \A r \in 0..(Len(twine) - 1) :
            IF UnclosedOpeners(twine[r + 1]) = {}
            THEN RowWarnings("UnclosedLink", r) = {}
            ELSE /\ Cardinality(RowWarnings("UnclosedLink", r)) = 1
                 /\ \A i \in RowWarnings("UnclosedLink", r) :
                       scanned.warnings[i].column
                           = SetMin(UnclosedOpeners(twine[r + 1])) + 1
                 /\ RowLinkColumns(r)
                        = ClosedLinksFrom(
                              Slice(twine[r + 1], 0,
                                    SetMin(UnclosedOpeners(twine[r + 1]))), 0)
                 /\ \A i \in RowWarnings("WhitespaceInLink", r) :
                       scanned.warnings[i].column
                           <= SetMin(UnclosedOpeners(twine[r + 1]))

\* C18 witness: a scanned line with a closed link, then an unclosed `[[`
\* followed by another `[[`, and a `]]` on the next line.
C18_Witness ==
    /\ scanned # NotRun
    /\ RowLinks(0) # {}
    /\ Cardinality(UnclosedOpeners(twine[1])) > 1
    /\ RowWarnings("UnclosedLink", 0) # {}
    /\ Len(twine) = 2 /\ ClosesFrom(twine[2], 0) # {}

Separators == {S_Bar, S_Left, S_Right}
\* `target` is a piece of `inner` cut at its ends or at separators only.
IsPieceOf(target, inner) ==
    \E a \in 0..Len(inner) : \E b \in a..Len(inner) :
        /\ target = Slice(inner, a, b)
        /\ a = 0 \/ \E sep \in Separators :
                        a >= Len(sep) /\ MatchAt(inner, sep, a - Len(sep))
        /\ b = Len(inner) \/ \E sep \in Separators : MatchAt(inner, sep, b)
WhitespaceWarningsAt(lnk) ==
    {i \in DOMAIN scanned.warnings :
        /\ scanned.warnings[i].kind = "WhitespaceInLink"
        /\ scanned.warnings[i].row = lnk.row_offset + 1
        /\ scanned.warnings[i].column = lnk.col_offset + 1}
OuterWhitespace(t) == t # <<>> /\ (t[1] = " " \/ t[Len(t)] = " ")

\* C19: every closed link has a WhitespaceInLink warning exactly when its
\* extracted target begins or ends with whitespace; the link is recorded
\* either way, with the target untrimmed; each line records as many links as
\* it has closed links, and every WhitespaceInLink warning is on a link.
C19_WhitespaceInLink ==
    scanned # NotRun =>
        /\ \A i \in DOMAIN scanned.content.links :
              /\ Cardinality(WhitespaceWarningsAt(scanned.content.links[i]))
                     = IF OuterWhitespace(scanned.content.links[i].target)
                       THEN 1 ELSE 0
              /\ IsPieceOf(scanned.content.links[i].target,
                           LinkInner(scanned.content.links[i]))
        /\ \A r \in 0..(Len(twine) - 1) :
              /\ Cardinality(RowLinks(r))
                     = Cardinality(ClosedLinksFrom(twine[r + 1], 0))
              /\ RowLinkColumns(r) = ClosedLinksFrom(twine[r + 1], 0)
              /\ Cardinality(RowWarnings("WhitespaceInLink", r))
                     = Cardinality({i \in RowLinks(r) :
                           OuterWhitespace(scanned.content.links[i].target)})

\* C19 witness: a scan that recorded a link whose target ends with whitespace
\* without beginning with it, and a link whose target has none.
C19_Witness ==
    /\ scanned # NotRun
    /\ \E i \in DOMAIN scanned.content.links :
          /\ scanned.content.links[i].target # <<>>
          /\ scanned.content.links[i].target[1] # " "
          /\ OuterWhitespace(scanned.content.links[i].target)
          /\ WhitespaceWarningsAt(scanned.content.links[i]) # {}
    /\ \E i \in DOMAIN scanned.content.links :
          /\ scanned.content.links[i].target # <<>>
          /\ ~OuterWhitespace(scanned.content.links[i].target)

SetMax(S) == CHOOSE x \in S : \A y \in S : y <= x

\* The 0-based offsets of the occurrences of `c` in `t` that do not directly
\* follow a backslash, and of those that do.
UnescapedAt(t, c) ==
    {i \in 0..(Len(t) - 1) : t[i + 1] = c /\ (i = 0 \/ t[i] # BS)}
EscapedAt(t, c) ==
    {i \in 1..(Len(t) - 1) : t[i + 1] = c /\ t[i] = BS}

\* The metadata block of a header line as described for guess_metadata_range.
MetadataBlock(t) ==
    IF UnescapedAt(t, "{") = {} THEN [some |-> FALSE, start |-> 0, end |-> 0]
    ELSE IF UnescapedAt(t, "}") = {}
    THEN [some |-> TRUE, start |-> SetMax(UnescapedAt(t, "{")), end |-> Len(t)]
    ELSE IF Cardinality(UnescapedAt(t, "{")) > Cardinality(UnescapedAt(t, "}"))
    THEN [some |-> TRUE,
          start |-> CHOOSE p \in UnescapedAt(t, "{") :
                       Cardinality({q \in UnescapedAt(t, "{") : q >= p})
                           = Cardinality(UnescapedAt(t, "}")),
          end |-> SetMax(UnescapedAt(t, "}")) + 1]
    ELSE [some |-> TRUE, start |-> SetMin(UnescapedAt(t, "{")),
          end |-> SetMax(UnescapedAt(t, "}")) + 1]

\* C20: guess_metadata_range finds no block without an unescaped `{`; from the
\* last unescaped `{` to the end of the line without an unescaped `}`; with
\* more opens than closes (N closes) from the first of the last N opens to
\* just after the last close; otherwise from the first open to just after the
\* last close; a brace directly after a backslash is never counted.  The
\* header parser slices the line with exactly that range.
C20_GuessMetadataRange ==
    hdr # NotRun =>
        /\ GuessMetadataRange(line) = MetadataBlock(line)
        /\ MetadataBlock(line).some =>
              <<MetadataBlock(line).start, MetadataBlock(line).end>>
                  \in hdr.ranges
        /\ ~MetadataBlock(line).some => <<0, Len(line)>> \in hdr.ranges

\* C20 witness: a parsed header line with three unescaped opens, two unescaped
\* closes and an escaped brace.
C20_Witness ==
    /\ hdr # NotRun
    /\ Cardinality(UnescapedAt(line, "{")) = 3
    /\ Cardinality(UnescapedAt(line, "}")) = 2
    /\ EscapedAt(line, "{") \cup EscapedAt(line, "}") # {}

\* The end of the name portion of a header line: the start of the metadata
\* block `g`, or the opener of the tag block before it.
MetaStartOf(t, g) == IF g.some THEN g.start ELSE Len(t)
TagOpenOf(t, ms) == FindLastUnescaped(Slice(t, 0, ms), "[")
NameEndOf(ms, to) == IF to = None THEN ms ELSE Min(ms, to)
MetaStart(t) == MetaStartOf(t, GuessMetadataRange(t))
TagOpen(t) == TagOpenOf(t, MetaStart(t))
NameEnd(t) == NameEndOf(MetaStart(t), TagOpen(t))
NamePortion(t) == Slice(t, 0, NameEnd(t))
NameTextOf(t, ne) ==
    IF ne > 2 THEN RemoveChar(Trim(Slice(t, 2, ne)), BS) ELSE <<>>

Specials == {"{", "}", "[", "]"}
UnescapedKind(c) ==
    CASE c = "{" -> "UnescapedOpenCurly" [] c = "}" -> "UnescapedCloseCurly"
      [] c = "[" -> "UnescapedOpenSquare" [] c = "]" -> "UnescapedCloseSquare"
EscapedKind(c) ==
    CASE c = "{" -> "EscapedOpenCurly" [] c = "}" -> "EscapedCloseCurly"
      [] c = "[" -> "EscapedOpenSquare" [] c = "]" -> "EscapedCloseSquare"
ClassRank(kind) ==
    CASE kind = "EscapedOpenCurly" -> 1 [] kind = "EscapedCloseCurly" -> 2
      [] kind = "EscapedOpenSquare" -> 3 [] kind = "EscapedCloseSquare" -> 4

SigilOnlyAfterWhitespace(t) ==
    \E k \in 1..Len(t) :
        /\ \A i \in 1..k : t[i] = " "
        /\ MatchAt(t, <<":", ":">>, k)

\* Every error a header line has, as [kind, column].
SigilErrors(t) ==
    IF MatchAt(t, <<":", ":">>, 0) THEN {}
    ELSE IF SigilOnlyAfterWhitespace(t) THEN {Err("LeadingWhitespace", 1)}
    ELSE {Err("MissingSigil", 1)}
MetadataErrors(t, g) ==
    IF g.some /\ FindLastUnescaped(Slice(t, g.end, Len(t)), "[") # None
    THEN {Err("MetadataBeforeTags", g.start + 1)}
    ELSE {}
TagErrors(t, ms, to) ==
    IF to # None /\ FindLastUnescaped(Slice(t, to + 1, ms), "]") = None
    THEN {Err("UnclosedTagBlock", to + 1)}
    ELSE {}
NameErrors(np) ==
    {Err(UnescapedKind(c), SetMin(UnescapedAt(np, c)) + 1) :
        c \in {d \in Specials : UnescapedAt(np, d) # {}}}
EmptyNameErrors(t, ne) ==
    IF NameTextOf(t, ne) = <<>> THEN {Err("EmptyName", 3)} ELSE {}
LineErrorsUpTo(t, g, ms, to, ne) ==
    SigilErrors(t) \cup MetadataErrors(t, g) \cup TagErrors(t, ms, to)
        \cup NameErrors(Slice(t, 0, ne)) \cup EmptyNameErrors(t, ne)
LineErrorsTags(t, g, ms, to) == LineErrorsUpTo(t, g, ms, to, NameEndOf(ms, to))
LineErrorsMeta(t, g, ms) == LineErrorsTags(t, g, ms, TagOpenOf(t, ms))
LineErrorsIn(t, g) == LineErrorsMeta(t, g, MetaStartOf(t, g))
LineErrors(t) == LineErrorsIn(t, GuessMetadataRange(t))

SeqRange(q) == {q[i] : i \in DOMAIN q}

ReportsExactly(h, errs) ==
    IF h.tag = "Ok" THEN errs = {}
    ELSE /\ errs # {}
         /\ SeqRange(h.errors) = errs
         /\ Len(h.errors) = Cardinality(errs)

EscapedWarnings(ws) ==
    SelectSeq(ws, LAMBDA w : w.kind \in {EscapedKind(c) : c \in Specials})

ByClassThenColumn(ws) ==
    \A i, j \in DOMAIN ws :
        i < j => \/ ClassRank(ws[i].kind) < ClassRank(ws[j].kind)
                 \/ ws[i].kind = ws[j].kind /\ ws[i].column < ws[j].column

\* What C16 says of the result `h` of parsing the line `t` whose name portion
\* is `np`.
EscapedNameCharacters(h, t, np) ==
    IF \A c \in Specials : UnescapedAt(np, c) = {}
    THEN /\ h.tag = "Err" =>
               \A e \in SeqRange(h.errors) :
                   e.kind \notin {UnescapedKind(c) : c \in Specials}
         /\ h.tag = "Ok" =>
               /\ h.name = RemoveChar(Trim(Slice(t, 2, Len(np))), BS)
               /\ SeqRange(EscapedWarnings(h.warnings))
                      = UNION {{Warn(EscapedKind(c), i) : i \in EscapedAt(np, c)} :
                                  c \in Specials}
               /\ ByClassThenColumn(EscapedWarnings(h.warnings))
    ELSE /\ h.tag = "Err"
         /\ \A c \in Specials :
               Cardinality({i \in DOMAIN h.errors :
                               h.errors[i].kind = UnescapedKind(c)})
                   = IF UnescapedAt(np, c) = {} THEN 0 ELSE 1
         /\ NameErrors(np) \subseteq SeqRange(h.errors)

UnescapedNameWitness ==
    /\ hdr # NotRun /\ hdr.tag = "Err"
    /\ UnescapedAt(NamePortion(line), "]") # {}
    /\ EscapedAt(NamePortion(line), "]") # {}

\* The files a path stands for: itself, or the twee files of the directory.
FilesOf(path) ==
    IF path \in DOMAIN DiskFiles THEN {path}
    ELSE IF path \in DOMAIN DiskDirs
    THEN {n \in DiskDirs[path] : Extension(n) \in {"tw", "twee"}}
    ELSE {}
\* The errors of parsing one file of the file system, and of reaching a path.
FileErrors(n) ==
    UNION {SeqRange(out.errors) : out \in FromContext(n, DiskFiles[n])}
PathErrors(files, path) ==
    (IF path \in DOMAIN DiskFiles \cup DOMAIN DiskDirs THEN {}
     ELSE {BadInputPath(path)})
    \cup UNION {UNION {SeqRange(out.errors) : out \in files[n]} :
                   n \in FilesOf(path)}
AllFilesParsed(input, out) ==
    \A i \in DOMAIN input : FilesOf(input[i]) \subseteq SeqRange(out.parsed)
AggregatesErrors(files, input, out) ==
    /\ out.tag = "Err" <=> \E i \in DOMAIN input : PathErrors(files, input[i]) # {}
    /\ \A i \in DOMAIN input :
          PathErrors(files, input[i]) \subseteq SeqRange(out.errors)

\* C11: from_paths (and the directory loop of from_path_internal) parses every
\* file of every path even after one of them failed, and the Err it returns
\* holds the errors of every failing file.
C11_ParsesEveryFile ==
    pathsOut # NotRun =>
        /\ AllFilesParsed(paths, pathsOut.out)
        /\ AggregatesErrors(ReadFiles, paths, pathsOut.out)

\* The number of files the first i paths stand for.
RECURSIVE FilesUpTo(_, _)
FilesUpTo(input, i) ==
    IF i = 0 THEN 0
    ELSE FilesUpTo(input, i - 1) + Cardinality(FilesOf(input[i]))

\* What from_paths does: when no path fails every file is parsed and the
\* result is Ok; otherwise the result is Err with the errors of the first
\* failing path's first failing file only, that file being the last one
\* parsed, and no file of a later path is parsed.
StopsAtFirstFailure(files, input, out) ==
    IF \A i \in DOMAIN input : PathErrors(files, input[i]) = {}
    THEN out.tag = "Ok" /\ AllFilesParsed(input, out)
    ELSE /\ out.tag = "Err"
         /\ \E i \in DOMAIN input :
               /\ \A j \in 1..(i - 1) : PathErrors(files, input[j]) = {}
               /\ PathErrors(files, input[i]) # {}
               /\ Len(out.parsed) <= FilesUpTo(input, i)
               /\ IF FilesOf(input[i]) = {}
                  THEN out.errors = <<BadInputPath(input[i])>>
                  ELSE /\ out.parsed # <<>>
                       /\ out.parsed[Len(out.parsed)] \in FilesOf(input[i])
                       /\ SeqRange(out.errors)
                              = UNION {SeqRange(o.errors) :
                                   o \in files[out.parsed[Len(out.parsed)]]}
                       /\ out.errors # <<>>

FromPathsStopsAtFirstFailure ==
    pathsOut # NotRun => StopsAtFirstFailure(ReadFiles, paths, pathsOut.out)

\* The unescaped `[` of a line that lie at or after the end of its metadata
\* block `g`.
OpensAfter(t, g) == {i \in UnescapedAt(t, "[") : g.some /\ i >= g.end}
MetadataBeforeTagsAt(h, g) ==
    /\ h.tag = "Err"
    /\ Err("MetadataBeforeTags", g.start + 1) \in SeqRange(h.errors)

\* C21: a header line with an unescaped `[` anywhere after the end of its
\* metadata block fails with MetadataBeforeTags at the column where the block
\* starts, whatever else follows the block.
C21_MetadataBeforeTags ==
    (hdr # NotRun /\ hdr.tag # "Panic") =>
        (OpensAfter(line, GuessMetadataRange(line)) # {}
            => MetadataBeforeTagsAt(hdr, GuessMetadataRange(line)))

\* The last occurrence of `c` in `t` does not directly follow a backslash.
LastIsUnescaped(t, c) ==
    \A i \in 1..Len(t) :
        (t[i] = c /\ \A j \in (i + 1)..Len(t) : t[j] # c)
            => (i = 1 \/ t[i - 1] # BS)

\* MetadataBeforeTags is raised exactly when the last `[` after the metadata
\* block is an unescaped one.
MetadataBeforeTagsIffLastOpen(h, t, g) ==
    MetadataBeforeTagsAt(h, g)
        <=> /\ OpensAfter(t, g) # {}
            /\ LastIsUnescaped(Slice(t, g.end, Len(t)), "[")

MetadataBeforeTagsWhenLastUnescaped ==
    (hdr # NotRun /\ hdr.tag # "Panic") =>
        MetadataBeforeTagsIffLastOpen(hdr, line, GuessMetadataRange(line))

\* The maximal runs of non-whitespace characters of `t`, as <<first, last>>.
TokenRuns(t) ==
    {r \in (1..Len(t)) \X (1..Len(t)) :
        /\ r[1] <= r[2]
        /\ \A i \in r[1]..r[2] : t[i] # " "
        /\ r[1] = 1 \/ t[r[1] - 1] = " "
        /\ r[2] = Len(t) \/ t[r[2] + 1] = " "}
IsTokensOf(tags, t) ==
    /\ Len(tags) = Cardinality(TokenRuns(t))
    /\ \A r \in TokenRuns(t) :
          tags[Cardinality({q \in TokenRuns(t) : q[1] <= r[1]})]
              = SubSeq(t, r[1], r[2])

\* The unescaped `[` before the metadata start `ms`, and the unescaped `]`
\* between the `[` at `p` and the metadata start.
OpensBefore(t, ms) == {i \in UnescapedAt(t, "[") : i < ms}
ClosesBetween(t, p, ms) == {j \in UnescapedAt(t, "]") : p < j /\ j < ms}
UnclosedTagBlockAt(h, p) ==
    /\ h.tag = "Err"
    /\ Err("UnclosedTagBlock", p + 1) \in SeqRange(h.errors)
NoUnclosedTagBlock(h) ==
    h.tag = "Err" => \A e \in SeqRange(h.errors) : e.kind # "UnclosedTagBlock"

\* What C22 says of the result `h` of parsing the line `t` whose metadata
\* starts at `ms`, `p` being the last unescaped `[` before it.
TagsFrom(h, t, ms, p) ==
    IF ClosesBetween(t, p, ms) = {} THEN UnclosedTagBlockAt(h, p)
    ELSE /\ NoUnclosedTagBlock(h)
         /\ h.tag = "Ok" =>
               IsTokensOf(h.tags,
                          Slice(t, p + 1, SetMax(ClosesBetween(t, p, ms))))
TagBlock(h, t, ms) ==
    IF OpensBefore(t, ms) = {}
    THEN NoUnclosedTagBlock(h) /\ (h.tag = "Ok" => h.tags = <<>>)
    ELSE TagsFrom(h, t, ms, SetMax(OpensBefore(t, ms)))

\* C22: the tags are the whitespace-separated tokens, left to right, of the
\* text between the last unescaped `[` before the metadata start and the last
\* unescaped `]` after that `[`; UnclosedTagBlock is raised at the `[` column
\* exactly when no unescaped `]` follows it before the metadata start; an
\* escaped bracket later in the line does not hide an unescaped one.
C22_TagBlock ==
    (hdr # NotRun /\ hdr.tag # "Panic") => TagBlock(hdr, line, MetaStart(line))

\* The same, for the lines where the last `[` before the metadata start and
\* the last `]` after the tag opener are unescaped ones.
TagBlockWhenLastUnescaped ==
    (/\ hdr # NotRun /\ hdr.tag # "Panic"
     /\ LastIsUnescaped(Slice(line, 0, MetaStart(line)), "[")
     /\ OpensBefore(line, MetaStart(line)) # {} =>
           LastIsUnescaped(
               Slice(line, SetMax(OpensBefore(line, MetaStart(line))) + 1,
                     MetaStart(line)), "]"))
        => TagBlock(hdr, line, MetaStart(line))

\* A parsed header with two tags.
TwoTagsWitness ==
    hdr # NotRun /\ hdr.tag = "Ok" /\ Len(hdr.tags) = 2

\* C28: an Err from PassageHeader::parse carries no warning: the Escaped* and
\* JsonError warnings accumulated on the line are discarded, and warnings are
\* returned only with an Ok header.
C28_ErrCarriesNoWarnings ==
    hdr # NotRun =>
        /\ hdr.tag = "Err" => hdr.warnings = <<>>
        /\ hdr.tag # "Panic" => (hdr.warnings # <<>> => hdr.tag = "Ok")

\* C28 witness: a failed parse that had accumulated an Escaped* warning and a
\* JsonError warning.
C28_Witness ==
    /\ hdr # NotRun /\ hdr.tag = "Err"
    /\ \E w \in SeqRange(hdr.dropped) : w.kind = "JsonError"
    /\ \E w \in SeqRange(hdr.dropped) :
          w.kind \in {EscapedKind(c) : c \in Specials}
    /\ hdr.warnings = <<>>

\* C29: the link scan of TwineContent::parse terminates on every input. Each
\* pass of the loop either breaks (the scan moves to the next line) or
\* strictly increases the scan offset: the closing `]]` lies at least two
\* characters after its opener and the next pass starts from it, so the next
\* opener lies strictly after the previous one. Every slice taken lies inside
\* the line, each line yields at most one UnclosedLink, and the links and
\* warnings returned are those of the whole handler.
ScanInLine ==
    scanned.pc = "loop" =>
        /\ scanned.row <= Len(twine)
        /\ scanned.row < Len(twine) =>
              /\ 0 <= scanned.start
              /\ scanned.start <= Len(twine[scanned.row + 1])
              /\ scanned.end # None =>
                    /\ scanned.open + 2 <= scanned.end
                    /\ scanned.end + 2 <= Len(twine[scanned.row + 1])
                    /\ scanned.start = scanned.end

OneUnclosedPerLine ==
    \A r \in 1..Len(twine) :
        Cardinality({i \in 1..Len(scanned.warnings) :
                        /\ scanned.warnings[i].kind = "UnclosedLink"
                        /\ scanned.warnings[i].row = r}) <= 1

ScanResult ==
    scanned.pc = "done" =>
        /\ scanned.links = TwineContentParse(twine).content.links
        /\ scanned.warnings = TwineContentParse(twine).warnings

ScanProgress ==
    (scanned.pc = "loop" /\ scanned'.pc = "loop") =>
        \/ scanned'.row = scanned.row + 1 /\ scanned'.start = 0
        \/ /\ scanned'.row = scanned.row
           /\ scanned'.start > scanned.start
           /\ scanned'.open >= scanned.start
           /\ scanned'.open > scanned.open

C29_ScanTerminates ==
    /\ [](ScanInLine /\ OneUnclosedPerLine /\ ScanResult)
    /\ [][ScanProgress]_vars
    /\ <>(scanned.pc = "done")

\* The scan has returned after a line with a link followed by an unclosed
\* one, with a further line after it.
C29_Witness ==
    /\ scanned.pc = "done"
    /\ \E r \in 1..(Len(twine) - 1) :
       \E k \in 1..Len(scanned.links) :
       \E i \in 1..Len(scanned.warnings) :
          /\ scanned.links[k].row_offset = r - 1
          /\ scanned.warnings[i].kind = "UnclosedLink"
          /\ scanned.warnings[i].row = r
          /\ scanned.warnings[i].column > scanned.links[k].col_offset + 2

\* C30: get_start_passage_name() returns None exactly when check() emits
\* MissingStartPassage. When it returns Some(name), the name is the StoryData
\* `start` field if one is set, whether or not a passage of that name exists,
\* and otherwise "Start", which is then a key of the passages map. check()
\* leaves the story unchanged.
StartNameAgreesWithCheck ==
    checked # NotRun =>
        /\ ~checked.start.some
               <=> KindCount(checked.warnings, "MissingStartPassage") > 0
        /\ checked.start.some =>
              IF HasStartField(output.story)
              THEN checked.start.name = output.story.data.content.start
              ELSE /\ checked.start.name = S_Start
                   /\ S_Start \in DOMAIN output.story.passages

CheckKeepsStory == (checked = NotRun /\ checked' # NotRun) => output' = output

C30_StartPassageName == []StartNameAgreesWithCheck /\ [][CheckKeepsStory]_vars

\* check() ran on a story with a StoryData passage without a `start` field
\* and with passages none of which is named "Start".
C30_Witness ==
    /\ checked # NotRun
    /\ output.story.data # NoPassage
    /\ DOMAIN output.story.passages # {}
    /\ ~checked.start.some
    /\ KindCount(checked.warnings, "MissingStartPassage") = 1

\* C23: the content of a passage is parsed by the first rule that applies:
\* name "StoryTitle" gives StoryTitle, else name "StoryData" gives StoryData,
\* else tag "script" gives Script, else tag "stylesheet" gives Stylesheet,
\* else Normal. A passage named StoryTitle and tagged script is the story
\* title; a passage tagged both script and stylesheet is a script. Only
\* Normal passages enter the name-keyed passages map.
ExpectedKind(name, tags) ==
    IF name = S_StoryTitle THEN "StoryTitle"
    ELSE IF name = S_StoryData THEN "StoryData"
    ELSE IF S_script \in SeqRange(tags) THEN "Script"
    ELSE IF S_stylesheet \in SeqRange(tags) THEN "Stylesheet"
    ELSE "Normal"

\* The passages a story holds, each with the kind of the slot that holds it.
Stored(st) ==
    (IF st.title = NoPassage THEN {} ELSE {<<"StoryTitle", st.title>>})
    \cup (IF st.data = NoPassage THEN {} ELSE {<<"StoryData", st.data>>})
    \cup {<<"Normal", st.passages[n]>> : n \in DOMAIN st.passages}
    \cup {<<"Script", st.scripts[i]>> : i \in DOMAIN st.scripts}
    \cup {<<"Stylesheet", st.stylesheets[i]>> : i \in DOMAIN st.stylesheets}

\* The passage parsed from the candidate `c` is held in the slot of kind `k`,
\* or an earlier passage holds the place it would take.
PlacedAs(st, c, name, k) ==
    \E sp \in Stored(st) :
        /\ sp[1] = k
        /\ \/ sp[2].context = c
           \/ /\ k \in {"StoryTitle", "StoryData", "Normal"}
              /\ sp[2].context.first < c.first
              /\ k = "Normal" => sp[2].name = name

DispatchIn(st, lines, attempts) ==
    /\ \A sp \in Stored(st) :
          /\ sp[2].content.kind = sp[1]
          /\ sp[1] = ExpectedKind(sp[2].name, sp[2].tags)
    /\ \A n \in DOMAIN st.passages :
          /\ st.passages[n].name = n
          /\ st.passages[n].content.kind = "Normal"
    /\ \A i \in DOMAIN attempts :
          PlacedAs(st, attempts[i],
                   PassageHeaderParse(lines[attempts[i].first]).name,
                   ExpectedKind(PassageHeaderParse(lines[attempts[i].first]).name,
                                PassageHeaderParse(lines[attempts[i].first]).tags))

C23_ContentDispatch ==
    (output # NotRun /\ output.tag = "Ok") =>
        DispatchIn(output.story, SplitLines(file.contents), output.attempts)

\* from_context returned a story whose title passage is tagged script and
\* that holds a script passage tagged both script and stylesheet.
C23_Witness ==
    /\ output # NotRun /\ output.tag = "Ok"
    /\ output.story.title # NoPassage
    /\ S_script \in SeqRange(output.story.title.tags)
    /\ \E i \in DOMAIN output.story.scripts :
          {S_script, S_stylesheet} \subseteq SeqRange(output.story.scripts[i].tags)

\* C24: StoryPassages::parse splits its input into candidate passage contexts
\* that partition it, and the splitting loop terminates: the first candidate
\* starts at line 1, each next one starts right after the last line of the
\* previous one, the last one ends at the end of the input, every candidate
\* after the first begins on a line whose left-trimmed text starts with `::`,
\* and within a candidate no other line has that form.
Partitions(attempts, lines) ==
    /\ attempts # <<>>
    /\ attempts[1].first = 1
    /\ attempts[Len(attempts)].last = Len(lines)
    /\ \A i \in DOMAIN attempts :
          /\ attempts[i].first <= attempts[i].last
          /\ i > 1 => /\ attempts[i].first = attempts[i - 1].last + 1
                      /\ IsHeaderLine(lines[attempts[i].first])
          /\ \A l \in (attempts[i].first + 1)..attempts[i].last :
                ~IsHeaderLine(lines[l])

C24_CandidatesPartitionInput ==
    output # NotRun => Partitions(output.attempts, SplitLines(file.contents))

\* The candidates partition the input whenever parse returns, that is on
\* every input none of whose header lines makes PassageHeader::parse panic.
CandidatesPartitionUnlessPanic ==
    Returned(output) => Partitions(output.attempts, SplitLines(file.contents))

\* parse returned after splitting an input of three lines into two candidates,
\* the first of which starts on a line that is no header.
TwoCandidatesWitness ==
    /\ Returned(output)
    /\ Len(output.attempts) = 2
    /\ Len(SplitLines(file.contents)) = 3
    /\ ~IsHeaderLine(SplitLines(file.contents)[1])

\* C25: subcontext with an exclusive end bound resolves to the position just
\* before the bound. When the bound resolves (a relative bound against the
\* start of the context) to absolute (L, c) with c > 1 the end is (L, c-1);
\* when it resolves to (L, 1) with L > 1 the end is the end of absolute line
\* L-1, for contexts starting on any line; when it resolves to (1, 1) the call
\* panics.
EndsJustBefore(parent, bound, result) ==
    IF bound.column > 1
    THEN /\ result # Panicked
         /\ result.end_position = Abs(bound.line, bound.column - 1)
    ELSE IF bound.line > 1
    THEN EndOfLineDefined(bound.line - 1, parent.line_starts) =>
             /\ result # Panicked
             /\ result.end_position
                    = UtilEndOfLine(bound.line - 1, parent.line_starts,
                                    parent.contents)
    ELSE result = Panicked

ExclusiveEndReturned ==
    SubcontextReturned /\ call.range[2].b = "Excluded"

C25_ExclusiveEndBound ==
    ExclusiveEndReturned =>
        EndsJustBefore(call.parent, ResolveBound(call.parent, call.range[2].p),
                       context)

\* The same for the bounds whose line number as given is the absolute line:
\* absolute bounds, and relative bounds in a context that starts on line 1.
ExclusiveEndBoundFromLineOne ==
    (ExclusiveEndReturned
        /\ (call.range[2].p.kind = "Absolute"
                \/ call.parent.start_position.line = 1)) =>
        EndsJustBefore(call.parent, ResolveBound(call.parent, call.range[2].p),
                       context)

\* subcontext resolved an exclusive end at column 1 of line 2 to the end of a
\* non-empty line 1.
PreviousLineWitness ==
    /\ ExclusiveEndReturned
    /\ context # Panicked
    /\ ResolveBound(call.parent, call.range[2].p) = Abs(2, 1)
    /\ context.end_position.line = 1
    /\ context.end_position.column >= 1

\* C26: chained relative subcontexting composes. For a context c and relative
\* positions a, b, p, q, c.subcontext(a..=b).subcontext(p..=q) has the same
\* start and end as c.subcontext(a.subposition(p)..=a.subposition(q)).
\* Equivalently Position::subposition is associative, subposition(1,1) is the
\* identity, an offset on line 1 adds its column minus one to the base column,
\* and an offset on a later line keeps its own column and adds its line minus
\* one to the base line.
ChainReturned == call # NotRun /\ call.op = "chain"

\* `to` is `base` moved by the offset `off` as the claim's rule says.
OffsetBy(base, off, to) ==
    /\ to.line = base.line + off.line - 1
    /\ to.column = IF off.line = 1 THEN base.column + off.column - 1
                   ELSE off.column
    /\ to.kind = base.kind
    /\ off = Rel(1, 1) => to = base

SamePositions(c, d) ==
    /\ c.start_position = d.start_position
    /\ c.end_position = d.end_position

ChainComposes(root, a, b, mid, p, q, result) ==
    /\ SamePositions(result,
           FullSubcontext(root,
               InclusiveRange(Subposition(a, p.line, p.column),
                              Subposition(a, q.line, q.column))))
    /\ OffsetBy(root.start_position, a, mid.start_position)
    /\ OffsetBy(root.start_position, b, mid.end_position)
    /\ OffsetBy(mid.start_position, p, result.start_position)
    /\ OffsetBy(mid.start_position, q, result.end_position)
    /\ OffsetBy(a, p, Subposition(a, p.line, p.column))
    /\ Subposition(Subposition(root.start_position, a.line, a.column),
                   p.line, p.column)
          = Subposition(root.start_position,
                        Subposition(a, p.line, p.column).line,
                        Subposition(a, p.line, p.column).column)

C26_ChainedSubcontextComposes ==
    ChainReturned =>
        ChainComposes(call.root, call.first[1], call.first[2], call.mid,
                      call.second[1], call.second[2], context)

\* A chain from a context that starts mid-line on line 2, whose first offset
\* stays on that line and whose second offset moves to a later line.
C26_Witness ==
    /\ ChainReturned
    /\ call.root.start_position = Abs(2, 2)
    /\ call.first[1] = Rel(1, 2)
    /\ call.second[1] = Rel(2, 2)
    /\ call.second[2] = Rel(1, 2)
    /\ context.start_position = Abs(3, 2)
    /\ context.end_position = Abs(2, 4)

\* C27: StoryPassages::from_string returns only parse-time warnings: it never
\* runs check(), so its output holds no MissingStoryTitle, MissingStoryData,
\* MissingStartPassage, DeadStartPassage or DeadLink warning whatever the
\* input. from_path and from_paths run check() exactly once, on the final
\* assembled story, and append its warnings after the parse and merge
\* warnings.
CheckKinds ==
    {"MissingStoryTitle", "MissingStoryData", "MissingStartPassage",
     "DeadStartPassage", "DeadLink"}

NoCheckWarnings(ws) == \A i \in DOMAIN ws : ws[i].kind \notin CheckKinds

\* `ws` is a list free of check warnings followed by the list `cw`.
EndsWithCheck(ws, cw) ==
    /\ Len(cw) <= Len(ws)
    /\ SubSeq(ws, Len(ws) - Len(cw) + 1, Len(ws)) = cw
    /\ NoCheckWarnings(SubSeq(ws, 1, Len(ws) - Len(cw)))

ChecksOnceAtEnd(out) ==
    \E order \in Orders(DOMAIN out.story.passages) :
        EndsWithCheck(out.warnings, Check(out.story, order))

C27_OnlyPathsRunCheck ==
    /\ output # NotRun => output \in FromString(file.contents)
    /\ Returned(output) => NoCheckWarnings(output.warnings)
    /\ (pathsOut # NotRun /\ pathsOut.out.tag = "Ok") =>
          ChecksOnceAtEnd(pathsOut.out)

\* from_string returned a story with a dead link and no title without any
\* warning, and from_paths returned the same passages merged twice with the
\* merge warning followed by the warnings of check().
C27_Witness ==
    /\ Returned(output) /\ output.tag = "Ok"
    /\ output.story.title = NoPassage
    /\ \E n \in DOMAIN output.story.passages :
          output.story.passages[n].content.links # <<>>
    /\ output.warnings = <<>>
    /\ pathsOut # NotRun /\ pathsOut.call = "from_paths"
    /\ pathsOut.out.tag = "Ok"
    /\ Len(paths) = 2
    /\ pathsOut.out.warnings # <<>>
    /\ pathsOut.out.warnings[1].kind = "DuplicatePassage"
    /\ KindCount(pathsOut.out.warnings, "DeadLink") = 1
    /\ KindCount(pathsOut.out.warnings, "MissingStoryTitle") = 1

\* from_path returned a story with the warnings of check().
FromPathWitness ==
    /\ pathsOut # NotRun /\ pathsOut.call = "from_path"
    /\ pathsOut.out.tag = "Ok"
    /\ KindCount(pathsOut.out.warnings, "DeadLink") = 1
    /\ KindCount(pathsOut.out.warnings, "MissingStoryData") = 1

====
